---- MODULE Spec2Model ----
(***************************************************************************)
(* Model of beam's HTTP/1.1 request parser and response serializer         *)
(* (src/source/http.c).  A byte is a one-character string; CR, LF and NUL  *)
(* are written "CR", "LF" and "NUL".  A pointer into the receive buffer is *)
(* a 1-based index into mem, and NULL is 0.  mem holds the received bytes;  *)
(* the buffer is BUF_SIZE bytes long and the bytes after the received ones *)
(* read as NUL, as in main's zero-initialised receive buffer.  A scan that *)
(* leaves the buffer is undefined: the process faults, or the parse goes   *)
(* on over whatever bytes follow the buffer.  Every allocation (strndup,    *)
(* realloc) either succeeds or fails.                                      *)
(***************************************************************************)
EXTENDS Integers, Sequences, FiniteSets, TLC

VARIABLES
    mem,                 \* the receive buffer raw_request_str points into
    remaining_size,      \* the caller's size_t that is passed by address
    pc,                  \* where the caller / the running parse stands
    call,                \* the function the caller invoked
    pos,                 \* raw_request_str of the running function
    rem_size,            \* rem_size local of HttpRequestParse
    all_rem_size,        \* rem_size local of HttpHeadersParseAll
    request,             \* the HttpRequest
    header,              \* HttpHeader local of HttpHeadersParseAll
    more_headers_remain, \* bool local of HttpHeadersParseAll
    ret,                 \* the returned pointer of the last call
    failed_in,           \* the phase that made HttpRequestParse return NULL
    live,                \* ids of the heap texts not yet freed
    unit,                \* outputs of a phase function called on its own
    size_in,             \* *remaining_size as it was when the call was made
    sent,                \* what HttpResponseSend handed to send()
    released_twice,      \* ids handed to free() while not allocated
    parse_allocs,        \* ids allocated by the latest HttpRequestParse
    vec,                 \* a GenericVec and the storage it points to
    vcall,               \* the latest vector call: arguments, vector before, result
    pushes,              \* the items pushed back since the vector was initialised
    server               \* the accept loop of main: where it stands, its descriptors

vars == <<mem, remaining_size, pc, call, pos, rem_size, all_rem_size, request,
          header, more_headers_remain, ret, failed_in, live, unit, size_in,
          sent, released_twice, parse_allocs, vec, vcall, pushes, server>>

\* the state of the vector exercised on its own
vecVars == <<vec, vcall, pushes>>

\* the state of the HTTP parser and serializer
httpVars == <<mem, remaining_size, pc, call, pos, rem_size, all_rem_size,
              request, header, more_headers_remain, ret, failed_in, live, unit,
              size_in, sent, released_twice, parse_allocs>>

(***************************************************************************)
(* Bytes and literals                                                      *)
(***************************************************************************)
CR == "CR"
LF == "LF"
SP == " "
COLON == ":"
NUL == "NUL"
NULL == 0

CRLF == <<CR, LF>>
HTTP11 == <<"H", "T", "T", "P", "/", "1", ".", "1">>
HTTP10 == <<"H", "T", "T", "P", "/", "1", ".", "0">>
VersionLiteral == HTTP11 \o CRLF

\* size_t arithmetic wraps; the width is scaled down to 16 bits so that the
\* wrapped values stay inside the model checker's integers.
SIZE_BITS == 16
SIZE_MOD == 2 ^ SIZE_BITS
SizeSub(a, b) == (a - b) % SIZE_MOD
SizeAdd(a, b) == (a + b) % SIZE_MOD

Min(S) == CHOOSE x \in S : \A y \in S : x <= y

\* char buf[UINT16_MAX] = {0}: the receive buffer of main
BUF_SIZE == 65535

\* *(p) for a pointer p into the buffer m
Byte(m, p) == IF p \in 1..Len(m) THEN m[p] ELSE NUL

\* memchr(p, c, n) for c # NUL: the first of the n bytes at p that equals c,
\* or NULL when none of those that lie in the buffer does
memchr(m, p, c, n) ==
    LET last == IF p + n - 1 > Len(m) THEN Len(m) ELSE p + n - 1
        hits == {i \in p..last : m[i] = c}
    IN  IF hits = {} THEN NULL ELSE Min(hits)

\* memchr(p, c, n) runs off the end of the buffer: the n bytes at p reach
\* past it and no byte before the end stops the scan
Overruns(m, p, c, n) == p + n - 1 > BUF_SIZE /\ memchr(m, p, c, n) = NULL

\* 0 == strncmp(p, lit, n) for a literal of at least n bytes without NUL
StrnEq(m, p, lit, n) == \A i \in 1..n : Byte(m, p + i - 1) = lit[i]

\* strlen bounded by n, as strndup measures it
RECURSIVE Strnlen(_, _, _)
Strnlen(m, p, n) ==
    IF n = 0 \/ Byte(m, p) = NUL THEN 0 ELSE 1 + Strnlen(m, p + 1, n - 1)

\* strndup(p, n): the bytes copied into the new text
strndup(m, p, n) == [i \in 1..Strnlen(m, p, n) |-> Byte(m, p + i - 1)]

(***************************************************************************)
(* HttpRequestMethod                                                       *)
(***************************************************************************)
GET == <<"G", "E", "T">>
POST == <<"P", "O", "S", "T">>
DELETE == <<"D", "E", "L", "E", "T", "E">>
PUT == <<"P", "U", "T">>
PATCH == <<"P", "A", "T", "C", "H">>
HEAD == <<"H", "E", "A", "D">>
OPTIONS == <<"O", "P", "T", "I", "O", "N", "S">>
CONNECT == <<"C", "O", "N", "N", "E", "C", "T">>
TRACE == <<"T", "R", "A", "C", "E">>

HttpRequestMethod ==
    {"GET", "POST", "DELETE", "PUT", "PATCH", "HEAD", "OPTIONS", "CONNECT",
     "TRACE", "UNKNOWN"}

\* the verb text of each enum member other than UNKNOWN
VerbText ==
    [GET |-> GET, POST |-> POST, DELETE |-> DELETE, PUT |-> PUT,
     PATCH |-> PATCH, HEAD |-> HEAD, OPTIONS |-> OPTIONS,
     CONNECT |-> CONNECT, TRACE |-> TRACE]

\* a NULL return; rem is the value of *remaining_size at the return
Fail(rem) == [ok |-> FALSE, pos |-> NULL, rem |-> rem]

\* The if/else ladder of HttpRequestMethodParse: the enum value and the
\* number of bytes the cursor advances for a token of method_size bytes at p.
MethodClassify(m, p, method_size) ==
    IF method_size = 7 THEN
        IF StrnEq(m, p, OPTIONS, 7) THEN [method |-> "OPTIONS", adv |-> 8]
        ELSE IF StrnEq(m, p, CONNECT, 7) THEN [method |-> "CONNECT", adv |-> 8]
        ELSE [method |-> "UNKNOWN", adv |-> 0]
    ELSE IF method_size = 6 THEN
        IF StrnEq(m, p, DELETE, 6) THEN [method |-> "DELETE", adv |-> 7]
        ELSE [method |-> "UNKNOWN", adv |-> 0]
    ELSE IF method_size = 5 THEN
        IF StrnEq(m, p, PATCH, 5) THEN [method |-> "PATCH", adv |-> 7]
        ELSE IF StrnEq(m, p, TRACE, 5) THEN [method |-> "TRACE", adv |-> 7]
        ELSE [method |-> "UNKNOWN", adv |-> 0]
    ELSE IF method_size = 4 THEN
        IF StrnEq(m, p, POST, 4) THEN [method |-> "POST", adv |-> 5]
        ELSE [method |-> "UNKNOWN", adv |-> 0]
    ELSE IF method_size = 3 THEN
        IF StrnEq(m, p, GET, 3) THEN [method |-> "GET", adv |-> 4]
        ELSE IF StrnEq(m, p, PUT, 3) THEN [method |-> "PUT", adv |-> 4]
        ELSE [method |-> "UNKNOWN", adv |-> 0]
    ELSE [method |-> "UNKNOWN", adv |-> 0]

\* HttpRequestMethodParse(&method, p, &rem): [ok, pos, rem, method]
HttpRequestMethodParse(m, p, rem) ==
    IF rem = 0 THEN Fail(rem)
    ELSE
        LET line_end == memchr(m, p, CR, rem)
            method_end == memchr(m, p, SP, rem)
        IN  IF method_end = NULL THEN Fail(rem)
            ELSE IF method_end >= line_end THEN Fail(rem)
            ELSE IF method_end - p = 0 THEN Fail(rem)
            ELSE
                LET c == MethodClassify(m, p, method_end - p)
                IN  [ok |-> TRUE, pos |-> p + c.adv,
                     rem |-> SizeSub(rem, c.adv), method |-> c.method]

\* HttpUrlParse(&url, p, &rem): [ok, pos, rem, url]
HttpUrlParse(m, p, rem) ==
    IF rem = 0 THEN Fail(rem)
    ELSE
        LET line_end == memchr(m, p, CR, rem)
            url_end == memchr(m, p, SP, rem)
        IN  IF url_end = NULL THEN Fail(rem)
            ELSE IF url_end >= line_end THEN Fail(rem)
            ELSE
                LET url_len == url_end - p
                IN  [ok |-> TRUE, pos |-> p + url_len + 1,
                     rem |-> SizeSub(rem, url_len + 1),
                     url |-> strndup(m, p, url_len)]

\* HttpVersionValidate taking ten off *remaining_size before the comparison
HttpVersionValidate_EarlyStore(m, p, rem) ==
    IF 10 > rem THEN Fail(rem)
    ELSE IF StrnEq(m, p, VersionLiteral, 10)
         THEN [ok |-> TRUE, pos |-> p + 10, rem |-> SizeSub(rem, 10)]
         ELSE Fail(SizeSub(rem, 10))

\* HttpVersionValidate comparing the eight bytes of HTTP/1.1 only
HttpVersionValidate_NoLineEnd(m, p, rem) ==
    IF 10 > rem THEN Fail(rem)
    ELSE IF StrnEq(m, p, VersionLiteral, 8)
         THEN [ok |-> TRUE, pos |-> p + 10, rem |-> SizeSub(rem, 10)]
         ELSE Fail(rem)

\* HttpVersionValidate(p, &rem): [ok, pos, rem]
HttpVersionValidate(m, p, rem) ==
    IF 10 > rem THEN Fail(rem)
    ELSE IF StrnEq(m, p, VersionLiteral, 10)
         THEN [ok |-> TRUE, pos |-> p + 10, rem |-> SizeSub(rem, 10)]
         ELSE Fail(rem)

\* HttpHeaderParse(&header, &more, p, &rem): [ok, pos, rem, set, key, value,
\* more].  set is FALSE when *header is left as it was; more is the value of
\* *more_headers_remain afterwards, given its value more_in before.
HttpHeaderParse(m, p, rem, more_in) ==
    IF rem = 0
    THEN [ok |-> TRUE, pos |-> p, rem |-> rem, set |-> FALSE, more |-> more_in]
    ELSE
        LET header_end == memchr(m, p, CR, rem)
            key_end == memchr(m, p, COLON, rem)
        IN  IF header_end = NULL THEN Fail(rem)
            ELSE IF Byte(m, header_end + 1) # LF THEN Fail(rem)
            ELSE IF 3 > header_end - p THEN Fail(rem)
            ELSE IF key_end = NULL THEN Fail(rem)
            ELSE IF key_end > header_end THEN Fail(rem)
            ELSE IF Byte(m, key_end + 1) # SP THEN Fail(rem)
            ELSE IF key_end = p THEN Fail(rem)
            ELSE
                LET rem1 == SizeSub(rem, key_end - p + 2)
                    value == key_end + 2
                    value_end == memchr(m, value, CR, rem1)
                IN  IF value_end = NULL THEN Fail(rem)
                    ELSE IF Byte(m, value_end + 1) # LF THEN Fail(rem)
                    ELSE IF value_end = value THEN Fail(rem)
                    ELSE
                        LET rem2 == SizeSub(rem1, value_end - value + 2)
                            p2 == value_end + 2
                            last == Byte(m, p2) = CR /\ Byte(m, p2 + 1) = LF
                        IN  [ok |-> TRUE,
                             pos |-> IF last THEN p2 + 2 ELSE p2,
                             rem |-> IF last THEN SizeSub(rem2, 2) ELSE rem2,
                             set |-> TRUE,
                             key |-> strndup(m, p, key_end - p),
                             value |-> strndup(m, value, value_end - value),
                             more |-> IF last THEN FALSE ELSE more_in]

\* the positions memchr(p, c, n) inspects: up to the first c, or all n
Scanned(m, p, c, n) ==
    LET e == memchr(m, p, c, n)
    IN  IF e = NULL THEN p..(p + n - 1) ELSE p..e

\* the positions strncmp(p, lit, n) inspects: up to the first difference
StrncmpReads(m, p, lit, n) ==
    LET diff == {i \in 1..n : Byte(m, p + i - 1) # lit[i]}
    IN  p..(p + (IF diff = {} THEN n ELSE Min(diff)) - 1)

\* the positions HttpRequestMethodParse reads: both memchr scans, line_end[1]
\* when the CR is found, and the token that strncmp compares
HttpRequestMethodParseReads(m, p, rem) ==
    IF rem = 0 THEN {}
    ELSE
        LET line_end == memchr(m, p, CR, rem)
            method_end == memchr(m, p, SP, rem)
        IN  Scanned(m, p, CR, rem)
            \cup (IF line_end # NULL THEN {line_end + 1} ELSE {})
            \cup Scanned(m, p, SP, rem)
            \cup (IF method_end # NULL /\ method_end < line_end
                  THEN p..(method_end - 1)
                  ELSE {})

\* the positions HttpUrlParse reads: both memchr scans, line_end[1] when
\* the CR is found, and the url that strndup copies
HttpUrlParseReads(m, p, rem) ==
    IF rem = 0 THEN {}
    ELSE
        LET line_end == memchr(m, p, CR, rem)
            url_end == memchr(m, p, SP, rem)
        IN  Scanned(m, p, CR, rem)
            \cup (IF line_end # NULL THEN {line_end + 1} ELSE {})
            \cup Scanned(m, p, SP, rem)
            \cup (IF url_end # NULL /\ url_end < line_end
                  THEN p..(url_end - 1)
                  ELSE {})

\* the positions HttpVersionValidate reads
HttpVersionValidateReads(m, p, rem) ==
    IF 10 > rem THEN {} ELSE StrncmpReads(m, p, VersionLiteral, 10)

\* the positions HttpHeaderParse reads, check by check: header_end[1],
\* key_end[1], value_end[1] and, after the line, raw_request_str[0] and,
\* when that is a CR, raw_request_str[1]
HttpHeaderParseReads(m, p, rem) ==
    IF rem = 0 THEN {}
    ELSE
        LET header_end == memchr(m, p, CR, rem)
            key_end == memchr(m, p, COLON, rem)
            r1 == Scanned(m, p, CR, rem)
            r2 == r1 \cup {header_end + 1}
            r3 == r2 \cup Scanned(m, p, COLON, rem)
            r4 == r3 \cup {key_end + 1}
        IN  IF header_end = NULL THEN r1
            ELSE IF Byte(m, header_end + 1) # LF THEN r2
            ELSE IF 3 > header_end - p THEN r2
            ELSE IF key_end = NULL THEN r3
            ELSE IF key_end > header_end THEN r3
            ELSE IF Byte(m, key_end + 1) # SP THEN r4
            ELSE IF key_end = p THEN r4
            ELSE
                LET rem1 == SizeSub(rem, key_end - p + 2)
                    value == key_end + 2
                    value_end == memchr(m, value, CR, rem1)
                    r5 == r4 \cup Scanned(m, value, CR, rem1)
                    r6 == r5 \cup {value_end + 1}
                IN  IF value_end = NULL THEN r5
                    ELSE IF Byte(m, value_end + 1) # LF THEN r6
                    ELSE IF value_end = value THEN r6
                    ELSE r6 \cup {value_end + 2}
                            \cup (IF Byte(m, value_end + 2) = CR
                                  THEN {value_end + 3}
                                  ELSE {})

\* HttpHeaderParse scans past the end of the buffer: its search for the CR,
\* or, once the line passed the first checks, its search for the ':'
HeaderParseOverruns(m, p, rem) ==
    /\ rem # 0
    /\ \/ Overruns(m, p, CR, rem)
       \/ LET header_end == memchr(m, p, CR, rem)
          IN  /\ header_end # NULL
              /\ Byte(m, header_end + 1) = LF
              /\ header_end - p >= 3
              /\ Overruns(m, p, COLON, rem)

\* a pointer that left the buffer, and a text copied from outside of it
WILD == BUF_SIZE + 1
WildText == <<"?">>

\* What HttpHeaderParse can return once it scans past the buffer and does not
\* fault: NULL, or a header made of the bytes that follow the buffer.
WildHeaderParse(rem, more_in) ==
    {Fail(rem)} \cup
    {[ok |-> TRUE, pos |-> WILD, rem |-> r, set |-> TRUE, key |-> WildText,
      value |-> WildText, more |-> b] :
        r \in {0, SIZE_MOD - 1}, b \in {more_in, FALSE}}

\* which strndup of a call failed, "none" when each one succeeded
Oom(r) == IF "oom" \in DOMAIN r THEN r.oom ELSE "none"

\* HttpHeaderParse when a strndup fails: NULL is returned after header->key
\* was stored, and for the value after the key text was allocated
HeaderParseNoMemory(r, rem) ==
    IF r.ok /\ r.set
    THEN {[ok |-> FALSE, pos |-> NULL, rem |-> rem, oom |-> "key"],
          [ok |-> FALSE, pos |-> NULL, rem |-> rem, oom |-> "value", key |-> r.key]}
    ELSE {}

\* the results HttpHeaderParse can produce
HeaderParseResults(m, p, rem, more_in) ==
    IF HeaderParseOverruns(m, p, rem)
    THEN WildHeaderParse(rem, more_in)
    ELSE {HttpHeaderParse(m, p, rem, more_in)}
         \cup HeaderParseNoMemory(HttpHeaderParse(m, p, rem, more_in), rem)

\* the results HttpUrlParse can produce: its strndup is not checked, so when
\* it fails the call still succeeds and *url is NULL
UrlParseResults(m, p, rem) ==
    LET r == HttpUrlParse(m, p, rem)
    IN  {r} \cup (IF r.ok
                  THEN {[ok |-> TRUE, pos |-> r.pos, rem |-> r.rem, url |-> <<>>,
                         oom |-> "url"]}
                  ELSE {})

\* expand_vec calls realloc when the vector of this length is full: the
\* capacity of a vector that only grew is 0, 1, 2, 4, ...
RECURSIVE IsPow2(_)
IsPow2(n) == n = 1 \/ (n > 1 /\ n % 2 = 0 /\ IsPow2(n \div 2))
PushReallocs(len) == len = 0 \/ IsPow2(len)

(***************************************************************************)
(* Heap texts, HttpHeader, HttpRequest                                     *)
(***************************************************************************)
\* a char* to a heap text: the allocation's id and its bytes; id 0 is NULL
NoText == [id |-> 0, text |-> <<>>]
NoHeader == [key |-> NoText, value |-> NoText]

\* malloc: the lowest id that is not live
NewId(S) == Min({i \in 1..(Cardinality(S) + 1) : i \notin S})

\* a zeroed HttpRequest; the enum member with value 0 is GET
ZeroRequest ==
    [method |-> "GET", url |-> NoText, headers |-> <<>>, request_size |-> 0]

NoUnit == [fn |-> "none"]
NoSend == [called |-> FALSE]

\* a zeroed GenericVec: no storage, length 0, capacity 0
\* a GenericVec of one-slot items; slots is the block data points to
ZeroVec ==
    [length |-> 0, capacity |-> 0, copy_init |-> NULL, copy_deinit |-> NULL,
     data |-> NULL, slots |-> <<>>]
NoVecCall == [fn |-> "none", ret |-> "void"]
\* an initialised vector that nothing was pushed to yet; only says whether
\* every call since was a VecPushBack
\* main before the first accept: no connection descriptor is open
NoServer == [stage |-> "accept", connfd |-> -1, open |-> {}]
NoPushes == [only |-> TRUE, items |-> <<>>]

(***************************************************************************)
(* Input buffers                                                           *)
(***************************************************************************)
MaxHeaders == 2
MaxPush == 4

K1 == <<"K">>
V1 == <<"V">>
K2 == <<"H", "o", "s", "t">>
V2 == <<"x">>
HeaderPairs == {[key |-> K1, value |-> V1], [key |-> K2, value |-> V2]}

Verbs == {VerbText[v] : v \in DOMAIN VerbText}
UnknownTokens ==
    {<<"G", "E", "X">>, <<"X">>, <<"O", "P", "T", "I", "O", "N", "S", "X">>}
MethodTokens == Verbs \cup UnknownTokens
UrlTokens == {<<"/">>, <<"/", "a", "b">>}
OtherVersions == {HTTP10, <<"H", "T", "T", "P", "/", "2">>}

SeqsUpTo(S, n) == UNION {[1..k -> S] : k \in 0..n}

RECURSIVE Flatten(_)
Flatten(ss) == IF ss = <<>> THEN <<>> ELSE Head(ss) \o Flatten(Tail(ss))

RequestLine(M, U, V) == M \o <<SP>> \o U \o <<SP>> \o V \o CRLF
HeaderLine(h) == h.key \o <<COLON, SP>> \o h.value \o CRLF
HeaderBlock(hs) == Flatten([i \in 1..Len(hs) |-> HeaderLine(hs[i])])
Message(M, U, hs) == RequestLine(M, U, HTTP11) \o HeaderBlock(hs) \o CRLF

HeaderLists == SeqsUpTo(HeaderPairs, MaxHeaders)

\* complete messages: every method token, url token and header list
WellFormed ==
    {Message(M, U, hs) : M \in MethodTokens, U \in UrlTokens, hs \in HeaderLists}

\* header lines that are not of the shape Key ':' SP Value CRLF
BadLines ==
    {K1 \o <<COLON, SP, SP>> \o V1 \o CRLF,
     K1 \o <<COLON>> \o V1 \o CRLF,
     <<COLON, SP>> \o V1 \o CRLF,
     K1 \o <<COLON, SP>> \o CRLF,
     K1 \o <<SP>> \o V1 \o CRLF,
     K1 \o <<COLON, SP>> \o V1 \o <<CR>>,
     K1 \o <<COLON, SP>> \o V1 \o <<LF>>,
     K1 \o <<COLON, SP>> \o V1,
     K1 \o V1 \o <<CR, LF, COLON, SP>> \o V1 \o CRLF}

GoodPrefixes ==
    {HeaderBlock(hs) : hs \in SeqsUpTo({[key |-> K1, value |-> V1]}, MaxHeaders - 1)}

\* messages broken in the request line or the version
BadRequestLines ==
    {RequestLine(M, U, V) \o HeaderLine([key |-> K1, value |-> V1]) \o CRLF :
        M \in {GET, PATCH, <<>>}, U \in {<<"/">>, <<>>},
        V \in {HTTP11} \cup OtherVersions}

\* messages broken in one header line or in the final blank line
BadHeaders ==
    {RequestLine(GET, <<"/">>, HTTP11) \o g \o b \o t :
        g \in GoodPrefixes, b \in BadLines \cup {<<>>}, t \in {CRLF, <<>>}}

Malformed == BadRequestLines \cup BadHeaders

Messages == WellFormed \cup Malformed

(***************************************************************************)
(* HttpRequestParse, one step per phase and per header-loop iteration      *)
(***************************************************************************)
Init ==
    /\ mem = <<>>
    /\ remaining_size = 0
    /\ pc = "idle"
    /\ call = "none"
    /\ pos = NULL
    /\ rem_size = 0
    /\ all_rem_size = 0
    /\ request = ZeroRequest
    /\ header = NoHeader
    /\ more_headers_remain = FALSE
    /\ ret = NULL
    /\ failed_in = "none"
    /\ live = {}
    /\ unit = NoUnit
    /\ size_in = 0
    /\ sent = NoSend
    /\ released_twice = {}
    /\ parse_allocs = {}
    /\ vec = ZeroVec
    /\ vcall = NoVecCall
    /\ pushes = NoPushes
    /\ server = NoServer

\* HttpRequestParse returns NULL from the given phase
ReturnNull(phase) ==
    /\ pc' = "returned"
    /\ ret' = NULL
    /\ pos' = NULL
    /\ failed_in' = phase

\* the tail of HttpRequestParse once HttpHeadersParseAll returned p and wrote
\* r to rem_size; hs is the header vector at that moment
ReturnParsed(p, r, hs) ==
    /\ pc' = "returned"
    /\ ret' = p
    /\ pos' = p
    /\ rem_size' = r
    /\ request' = [request EXCEPT !.headers = hs, !.request_size = remaining_size]
    /\ remaining_size' = r
    /\ failed_in' = "none"

CallHttpRequestParse(m, n) ==
    /\ pc = "idle"
    /\ parse_allocs' = {}
    /\ UNCHANGED <<released_twice, vecVars, server>>
    /\ mem' = m
    /\ size_in' = n
    /\ call' = "HttpRequestParse"
    /\ rem_size' = n
    /\ failed_in' = "none"
    /\ IF n = 0
       THEN /\ pc' = "returned"
            /\ ret' = 1
            /\ pos' = 1
       ELSE /\ pc' = "method"
            /\ ret' = NULL
            /\ pos' = 1
    /\ remaining_size' = n
    /\ UNCHANGED <<all_rem_size, request, header, more_headers_remain, live,
                   unit, sent>>

MethodPhase ==
    /\ pc = "method"
    /\ UNCHANGED <<released_twice, parse_allocs, vecVars, server>>
    /\ LET r == HttpRequestMethodParse(mem, pos, rem_size)
       IN  /\ rem_size' = r.rem
           /\ IF r.ok
              THEN /\ request' = [request EXCEPT !.method = r.method]
                   /\ pos' = r.pos
                   /\ pc' = "url"
                   /\ UNCHANGED <<ret, failed_in>>
              ELSE /\ ReturnNull("method")
                   /\ UNCHANGED request
    /\ UNCHANGED <<mem, remaining_size, call, all_rem_size, header,
                   more_headers_remain, live, unit, size_in, sent>>

UrlPhase ==
    /\ pc = "url"
    /\ UNCHANGED <<released_twice, vecVars, server>>
    /\ \E r \in UrlParseResults(mem, pos, rem_size) :
           /\ rem_size' = r.rem
           /\ IF r.ok
              THEN /\ IF Oom(r) = "url"
                      THEN /\ request' = [request EXCEPT !.url = NoText]
                           /\ UNCHANGED <<live, parse_allocs>>
                      ELSE /\ request' = [request EXCEPT
                                !.url = [id |-> NewId(live), text |-> r.url]]
                           /\ live' = live \cup {NewId(live)}
                           /\ parse_allocs' = parse_allocs \cup {NewId(live)}
                   /\ pos' = r.pos
                   /\ pc' = "version"
                   /\ UNCHANGED <<ret, failed_in>>
              ELSE /\ ReturnNull("url")
                   /\ UNCHANGED <<request, live, parse_allocs>>
    /\ UNCHANGED <<mem, remaining_size, call, all_rem_size, header,
                   more_headers_remain, unit, size_in, sent>>

VersionPhase ==
    /\ pc = "version"
    /\ UNCHANGED <<released_twice, parse_allocs, vecVars, server>>
    /\ LET r == HttpVersionValidate(mem, pos, rem_size)
       IN  /\ rem_size' = r.rem
           /\ IF r.ok
              THEN /\ pos' = r.pos
                   /\ pc' = "headers"
                   /\ UNCHANGED <<ret, failed_in>>
              ELSE ReturnNull("version")
    /\ UNCHANGED <<mem, remaining_size, call, all_rem_size, request, header,
                   more_headers_remain, live, unit, size_in, sent>>

\* entry of HttpHeadersParseAll up to the first test of the while loop;
\* VecInit drops the vector's storage without releasing the items' texts
HeadersParseAllEnter ==
    /\ pc = "headers"
    /\ UNCHANGED <<released_twice, parse_allocs, vecVars, server>>
    /\ all_rem_size' = rem_size
    /\ IF rem_size = 0
       THEN /\ ReturnParsed(pos, rem_size, request.headers)
            /\ UNCHANGED more_headers_remain
       ELSE /\ request' = [request EXCEPT !.headers = <<>>]
            /\ more_headers_remain' = TRUE
            /\ pc' = "loop"
            /\ UNCHANGED <<pos, rem_size, remaining_size, ret, failed_in>>
    /\ UNCHANGED <<mem, call, header, live, unit, size_in, sent>>

\* one iteration of the while loop of HttpHeadersParseAll: HttpHeaderParse,
\* then VecPush of the local header whatever HttpHeaderParse left in it
HeaderLoopIter ==
    /\ pc = "loop"
    /\ UNCHANGED <<released_twice, vecVars, server>>
    /\ Len(request.headers) < MaxPush
    /\ Cardinality(parse_allocs) < 2 * MaxPush + 1
    /\ \E r \in HeaderParseResults(mem, pos, all_rem_size, more_headers_remain) :
       LET kid == NewId(live)
           vid == NewId(live \cup {kid})
           h == IF r.ok /\ r.set
                THEN [key |-> [id |-> kid, text |-> r.key],
                      value |-> [id |-> vid, text |-> r.value]]
                ELSE header
       IN  /\ all_rem_size' = r.rem
           /\ IF ~r.ok
              THEN /\ ReturnNull("headers")
                   /\ header' =
                        IF Oom(r) = "key" THEN [header EXCEPT !.key = NoText]
                        ELSE IF Oom(r) = "value"
                        THEN [key |-> [id |-> kid, text |-> r.key],
                              value |-> NoText]
                        ELSE header
                   /\ live' = IF Oom(r) = "value" THEN live \cup {kid} ELSE live
                   /\ parse_allocs' = IF Oom(r) = "value"
                                      THEN parse_allocs \cup {kid}
                                      ELSE parse_allocs
                   /\ UNCHANGED <<request, more_headers_remain,
                                  rem_size, remaining_size>>
              ELSE \E pushed \in {TRUE} \cup
                        (IF PushReallocs(Len(request.headers)) THEN {FALSE} ELSE {}) :
                   LET hs == IF pushed THEN Append(request.headers, h)
                             ELSE request.headers
                   IN
                   /\ header' = h
                   /\ live' = IF r.set THEN live \cup {kid, vid} ELSE live
                   /\ parse_allocs' = IF r.set THEN parse_allocs \cup {kid, vid}
                                      ELSE parse_allocs
                   /\ more_headers_remain' = r.more
                   /\ IF r.more
                      THEN /\ request' = [request EXCEPT !.headers = hs]
                           /\ pos' = r.pos
                           /\ pc' = "loop"
                           /\ UNCHANGED <<rem_size, remaining_size, ret,
                                          failed_in>>
                      ELSE ReturnParsed(r.pos, r.rem, hs)
    /\ UNCHANGED <<mem, call, unit, size_in, sent>>

\* HttpHeaderParse scans past the buffer into memory that is not mapped: the
\* process is killed inside the call
HeaderLoopFault ==
    /\ pc = "loop"
    /\ UNCHANGED <<released_twice, parse_allocs, vecVars, server>>
    /\ HeaderParseOverruns(mem, pos, all_rem_size)
    /\ pc' = "crashed"
    /\ UNCHANGED <<mem, remaining_size, call, pos, rem_size, all_rem_size,
                   request, header, more_headers_remain, ret, failed_in, live,
                   unit, size_in, sent>>

\* ids released by HttpHeadersFreeAll over the vector hs
HeaderIds(hs) ==
    UNION {{hs[i].key.id, hs[i].value.id} : i \in 1..Len(hs)}

\* free(p) on the heap h = [live, twice]
free(h, id) ==
    IF id \in h.live THEN [h EXCEPT !.live = @ \ {id}]
    ELSE [h EXCEPT !.twice = @ \cup {id}]

\* free() of each pointer of a sequence, in order
RECURSIVE FreeEach(_, _)
FreeEach(h, ids) ==
    IF ids = <<>> THEN h ELSE FreeEach(free(h, Head(ids)), Tail(ids))

\* the pointers HttpHeadersFreeAll hands to free(), in order: each header's
\* key, then its value, when not NULL
HeaderPtrs(hs) ==
    SelectSeq([i \in 1..(2 * Len(hs)) |->
                  IF i % 2 = 1 THEN hs[(i + 1) \div 2].key.id
                  ELSE hs[i \div 2].value.id],
              LAMBDA id : id # NULL)

\* HttpHeadersFreeAll(&hs) on the heap h: the heap afterwards; VecDeinit
\* leaves the vector zeroed
HttpHeadersFreeAll(h, hs) == FreeEach(h, HeaderPtrs(hs))

\* the caller of HttpRequestParse holds the request
HoldsRequest == pc \in {"returned", "freed"} /\ call = "HttpRequestParse"

CallHttpHeadersFreeAll ==
    /\ HoldsRequest
    /\ LET h == HttpHeadersFreeAll([live |-> live, twice |-> released_twice],
                                   request.headers)
       IN  /\ live' = h.live
           /\ released_twice' = h.twice
    /\ request' = [request EXCEPT !.headers = <<>>]
    /\ pc' = "freed"
    /\ UNCHANGED <<mem, remaining_size, call, pos, rem_size, all_rem_size,
                   header, more_headers_remain, ret, failed_in, unit, size_in,
                   sent, parse_allocs, vecVars, server>>

HttpRequestReset ==
    /\ HoldsRequest
    /\ LET h0 == [live |-> live, twice |-> released_twice]
           h1 == IF request.url.id # NULL THEN free(h0, request.url.id) ELSE h0
           h2 == HttpHeadersFreeAll(h1, request.headers)
       IN  /\ live' = h2.live
           /\ released_twice' = h2.twice
    /\ request' = ZeroRequest
    /\ pc' = "reset"
    /\ UNCHANGED <<mem, remaining_size, call, pos, rem_size, all_rem_size,
                   header, more_headers_remain, ret, failed_in, unit, size_in,
                   sent, parse_allocs, vecVars, server>>

\* the texts the request still points to
Reachable(req) ==
    ({req.url.id} \cup HeaderIds(req.headers)) \ {NULL}

\* the caller moves on: the finished call's arguments, locals and results
\* go out of scope.  A text that no pointer refers to any more stays
\* allocated for the rest of the run and can be neither read nor released:
\* the heap of the model stops tracking it.
NextCall ==
    /\ \/ pc = "reset"
       \/ pc = "returned" /\ call # "HttpRequestParse"
    /\ mem' = <<>>
    /\ remaining_size' = 0
    /\ pc' = "idle"
    /\ call' = "none"
    /\ pos' = NULL
    /\ rem_size' = 0
    /\ all_rem_size' = 0
    /\ header' = NoHeader
    /\ more_headers_remain' = FALSE
    /\ ret' = NULL
    /\ failed_in' = "none"
    /\ unit' = NoUnit
    /\ size_in' = 0
    /\ sent' = NoSend
    /\ parse_allocs' = {}
    /\ live' = live \cap Reachable(request)
    /\ UNCHANGED <<request, released_twice, vecVars, server>>


(***************************************************************************)
(* The phase functions called on their own                                 *)
(***************************************************************************)
MethodInputs ==
    {T \o t : T \in MethodTokens \cup {<<>>},
              t \in {<<SP, "/", SP>> \o HTTP11 \o CRLF,
                     <<SP, "/">> \o CRLF,
                     <<SP, "/", CR, "x">>,
                     CRLF \o <<SP>>,
                     <<SP, "/">>}}

UrlInputs ==
    {U \o t : U \in UrlTokens \cup {<<>>},
              t \in {<<SP>> \o HTTP11 \o CRLF,
                     <<SP>> \o HTTP11 \o <<CR, "x">>,
                     CRLF \o <<SP>>,
                     <<SP>> \o HTTP11,
                     CRLF}}

VersionInputs ==
    {V \o e \o t : V \in {HTTP11} \cup OtherVersions \cup {<<"h", "t", "t", "p", "/", "1", ".", "1">>},
                   e \in {CRLF, <<CR, CR>>, <<LF, LF>>, <<LF, CR>>, <<SP>> \o CRLF},
                   t \in {<<>>, K1, CRLF}}

HeaderInputs ==
    {l \o t : l \in {HeaderLine(h) : h \in HeaderPairs} \cup BadLines \cup {<<>>},
              t \in {<<>>, CRLF, <<LF>>, HeaderLine([key |-> K1, value |-> V1])}}

\* the caller's view once a phase function returned r
UnitReturn(fn, m, n, r) ==
    /\ pc = "idle"
    /\ UNCHANGED <<released_twice, parse_allocs, vecVars, server>>
    /\ mem' = m
    /\ size_in' = n
    /\ remaining_size' = r.rem
    /\ call' = fn
    /\ ret' = r.pos
    /\ unit' = r
    /\ pc' = "returned"
    /\ UNCHANGED <<pos, rem_size, all_rem_size, request, header,
                   more_headers_remain, failed_in, live, sent>>

CallHttpRequestMethodParse(m, n) ==
    UnitReturn("HttpRequestMethodParse", m, n, HttpRequestMethodParse(m, 1, n))

CallHttpUrlParse(m, n) ==
    \E r \in UrlParseResults(m, 1, n) : UnitReturn("HttpUrlParse", m, n, r)

CallHttpVersionValidate(m, n) ==
    UnitReturn("HttpVersionValidate", m, n, HttpVersionValidate(m, 1, n))

CallHttpHeaderParse(m, n, more_in) ==
    \E r \in HeaderParseResults(m, 1, n, more_in) :
        UnitReturn("HttpHeaderParse", m, n, [more_in |-> more_in] @@ r)

(***************************************************************************)
(* HttpHeadersFind                                                         *)
(***************************************************************************)
\* the byte at index i of a NUL-terminated text
CharAt(a, i) == IF i \in 1..Len(a) THEN a[i] ELSE NUL

\* strcmp walks both texts until they differ or both end
RECURSIVE StrEqFrom(_, _, _)
StrEqFrom(a, b, i) ==
    IF CharAt(a, i) # CharAt(b, i) THEN FALSE
    ELSE IF CharAt(a, i) = NUL THEN TRUE
    ELSE StrEqFrom(a, b, i + 1)

\* strcmp(a, b): 0 when the texts are equal; the sign is not modelled
strcmp(a, b) == IF StrEqFrom(a, b, 1) THEN 0 ELSE 1

\* HttpHeadersFind scanning from the last header to the first
HttpHeadersFind_Last(hs, key) ==
    LET hits == {i \in 1..Len(hs) : strcmp(hs[i].key.text, key) = 0}
    IN  IF hits = {} THEN NULL ELSE CHOOSE i \in hits : \A j \in hits : j <= i

\* the VecForeachPtr loop of HttpHeadersFind from index iter on
RECURSIVE FindFrom(_, _, _)
FindFrom(hs, key, iter) ==
    IF iter > Len(hs) THEN NULL
    ELSE IF strcmp(hs[iter].key.text, key) = 0 THEN iter
    ELSE FindFrom(hs, key, iter + 1)

\* HttpHeadersFind(&hs, key): the 1-based index of the header returned, or
\* NULL
HttpHeadersFind(hs, key) == FindFrom(hs, key, 1)

MaxFind == 3
HostKey == <<"H", "o", "s", "t">>
FindHeaders ==
    {[key |-> [id |-> 1, text |-> HostKey], value |-> [id |-> 2, text |-> <<"a">>]],
     [key |-> [id |-> 3, text |-> <<"h", "o", "s", "t">>],
      value |-> [id |-> 4, text |-> <<"b">>]],
     [key |-> [id |-> 5, text |-> HostKey], value |-> [id |-> 6, text |-> <<"c">>]]}
FindLists == SeqsUpTo(FindHeaders, MaxFind)
FindKeys ==
    {HostKey, <<"h", "o", "s", "t">>, <<"H", "o", "s">>, <<"H", "o", "s", "t", "x">>,
     <<>>}

CallHttpHeadersFind(hs, key) ==
    /\ pc = "idle"
    /\ unit' = [fn |-> "HttpHeadersFind", headers |-> hs, key |-> key,
                found |-> HttpHeadersFind(hs, key), headers_after |-> hs]
    /\ call' = "HttpHeadersFind"
    /\ pc' = "returned"
    /\ UNCHANGED <<mem, remaining_size, pos, rem_size, all_rem_size, request,
                   header, more_headers_remain, ret, failed_in, live, size_in,
                   sent, released_twice, parse_allocs, vecVars, server>>

(***************************************************************************)
(* HttpResponseSend                                                        *)
(***************************************************************************)
\* a const char* result: NULL, or a string literal
NullString == [null |-> TRUE, str |-> <<>>]

\* HttpResponseCodeToString: the switch over HttpResponseCode
ResponseCodeStrings ==
    100 :> <<"1", "0", "0", " ", "C", "o", "n", "t", "i", "n", "u", "e">> @@
    101 :> <<"1", "0", "1", " ", "S", "w", "i", "t", "c", "h", "i", "n", "g", " ", "P", "r", "o", "t", "o", "c", "o", "l", "s">> @@
    102 :> <<"1", "0", "2", " ", "P", "r", "o", "c", "e", "s", "s", "i", "n", "g">> @@
    103 :> <<"1", "0", "3", " ", "E", "a", "r", "l", "y", " ", "H", "i", "n", "t", "s">> @@
    200 :> <<"2", "0", "0", " ", "O", "K">> @@
    201 :> <<"2", "0", "1", " ", "C", "r", "e", "a", "t", "e", "d">> @@
    202 :> <<"2", "0", "2", " ", "A", "c", "c", "e", "p", "t", "e", "d">> @@
    203 :> <<"2", "0", "3", " ", "N", "o", "n", "-", "A", "u", "t", "h", "o", "r", "i", "t", "a", "t", "i", "v", "e", " ", "I", "n", "f", "o", "r", "m", "a", "t", "i", "o", "n">> @@
    204 :> <<"2", "0", "4", " ", "N", "o", " ", "C", "o", "n", "t", "e", "n", "t">> @@
    205 :> <<"2", "0", "5", " ", "R", "e", "s", "e", "t", " ", "C", "o", "n", "t", "e", "n", "t">> @@
    206 :> <<"2", "0", "6", " ", "P", "a", "r", "t", "i", "a", "l", " ", "C", "o", "n", "t", "e", "n", "t">> @@
    207 :> <<"2", "0", "7", " ", "M", "u", "l", "t", "i", "-", "S", "t", "a", "t", "u", "s">> @@
    208 :> <<"2", "0", "8", " ", "A", "l", "r", "e", "a", "d", "y", " ", "R", "e", "p", "o", "r", "t", "e", "d">> @@
    226 :> <<"2", "2", "6", " ", "I", "M", " ", "U", "s", "e", "d">> @@
    300 :> <<"3", "0", "0", " ", "M", "u", "l", "t", "i", "p", "l", "e", " ", "C", "h", "o", "i", "c", "e", "s">> @@
    301 :> <<"3", "0", "1", " ", "M", "o", "v", "e", "d", " ", "P", "e", "r", "m", "a", "n", "e", "n", "t", "l", "y">> @@
    302 :> <<"3", "0", "2", " ", "F", "o", "u", "n", "d">> @@
    303 :> <<"3", "0", "3", " ", "S", "e", "e", " ", "O", "t", "h", "e", "r">> @@
    304 :> <<"3", "0", "4", " ", "N", "o", "t", " ", "M", "o", "d", "i", "f", "i", "e", "d">> @@
    305 :> <<"3", "0", "5", " ", "U", "s", "e", " ", "P", "r", "o", "x", "y">> @@
    307 :> <<"3", "0", "7", " ", "T", "e", "m", "p", "o", "r", "a", "r", "y", " ", "R", "e", "d", "i", "r", "e", "c", "t">> @@
    308 :> <<"3", "0", "8", " ", "P", "e", "r", "m", "a", "n", "e", "n", "t", " ", "R", "e", "d", "i", "r", "e", "c", "t">> @@
    400 :> <<"4", "0", "0", " ", "B", "a", "d", " ", "R", "e", "q", "u", "e", "s", "t">> @@
    401 :> <<"4", "0", "1", " ", "U", "n", "a", "u", "t", "h", "o", "r", "i", "z", "e", "d">> @@
    402 :> <<"4", "0", "2", " ", "P", "a", "y", "m", "e", "n", "t", " ", "R", "e", "q", "u", "i", "r", "e", "d">> @@
    403 :> <<"4", "0", "3", " ", "F", "o", "r", "b", "i", "d", "d", "e", "n">> @@
    404 :> <<"4", "0", "4", " ", "N", "o", "t", " ", "F", "o", "u", "n", "d">> @@
    405 :> <<"4", "0", "5", " ", "M", "e", "t", "h", "o", "d", " ", "N", "o", "t", " ", "A", "l", "l", "o", "w", "e", "d">> @@
    406 :> <<"4", "0", "6", " ", "N", "o", "t", " ", "A", "c", "c", "e", "p", "t", "a", "b", "l", "e">> @@
    407 :> <<"4", "0", "7", " ", "P", "r", "o", "x", "y", " ", "A", "u", "t", "h", "e", "n", "t", "i", "c", "a", "t", "i", "o", "n", " ", "R", "e", "q", "u", "i", "r", "e", "d">> @@
    408 :> <<"4", "0", "8", " ", "R", "e", "q", "u", "e", "s", "t", " ", "T", "i", "m", "e", "o", "u", "t">> @@
    409 :> <<"4", "0", "9", " ", "C", "o", "n", "f", "l", "i", "c", "t">> @@
    410 :> <<"4", "1", "0", " ", "G", "o", "n", "e">> @@
    411 :> <<"4", "1", "1", " ", "L", "e", "n", "g", "t", "h", " ", "R", "e", "q", "u", "i", "r", "e", "d">> @@
    412 :> <<"4", "1", "2", " ", "P", "r", "e", "c", "o", "n", "d", "i", "t", "i", "o", "n", " ", "F", "a", "i", "l", "e", "d">> @@
    413 :> <<"4", "1", "3", " ", "P", "a", "y", "l", "o", "a", "d", " ", "T", "o", "o", " ", "L", "a", "r", "g", "e">> @@
    414 :> <<"4", "1", "4", " ", "U", "R", "I", " ", "T", "o", "o", " ", "L", "o", "n", "g">> @@
    415 :> <<"4", "1", "5", " ", "U", "n", "s", "u", "p", "p", "o", "r", "t", "e", "d", " ", "M", "e", "d", "i", "a", " ", "T", "y", "p", "e">> @@
    416 :> <<"4", "1", "6", " ", "R", "a", "n", "g", "e", " ", "N", "o", "t", " ", "S", "a", "t", "i", "s", "f", "i", "a", "b", "l", "e">> @@
    417 :> <<"4", "1", "7", " ", "E", "x", "p", "e", "c", "t", "a", "t", "i", "o", "n", " ", "F", "a", "i", "l", "e", "d">> @@
    418 :> <<"4", "1", "8", " ", "I", "'", "m", " ", "a", " ", "t", "e", "a", "p", "o", "t">> @@
    421 :> <<"4", "2", "1", " ", "M", "i", "s", "d", "i", "r", "e", "c", "t", "e", "d", " ", "R", "e", "q", "u", "e", "s", "t">> @@
    422 :> <<"4", "2", "2", " ", "U", "n", "p", "r", "o", "c", "e", "s", "s", "a", "b", "l", "e", " ", "E", "n", "t", "i", "t", "y">> @@
    423 :> <<"4", "2", "3", " ", "L", "o", "c", "k", "e", "d">> @@
    424 :> <<"4", "2", "4", " ", "F", "a", "i", "l", "e", "d", " ", "D", "e", "p", "e", "n", "d", "e", "n", "c", "y">> @@
    425 :> <<"4", "2", "5", " ", "T", "o", "o", " ", "E", "a", "r", "l", "y">> @@
    426 :> <<"4", "2", "6", " ", "U", "p", "g", "r", "a", "d", "e", " ", "R", "e", "q", "u", "i", "r", "e", "d">> @@
    428 :> <<"4", "2", "8", " ", "P", "r", "e", "c", "o", "n", "d", "i", "t", "i", "o", "n", " ", "R", "e", "q", "u", "i", "r", "e", "d">> @@
    429 :> <<"4", "2", "9", " ", "T", "o", "o", " ", "M", "a", "n", "y", " ", "R", "e", "q", "u", "e", "s", "t", "s">> @@
    431 :> <<"4", "3", "1", " ", "R", "e", "q", "u", "e", "s", "t", " ", "H", "e", "a", "d", "e", "r", " ", "F", "i", "e", "l", "d", "s", " ", "T", "o", "o", " ", "L", "a", "r", "g", "e">> @@
    451 :> <<"4", "5", "1", " ", "U", "n", "a", "v", "a", "i", "l", "a", "b", "l", "e", " ", "F", "o", "r", " ", "L", "e", "g", "a", "l", " ", "R", "e", "a", "s", "o", "n", "s">> @@
    500 :> <<"5", "0", "0", " ", "I", "n", "t", "e", "r", "n", "a", "l", " ", "S", "e", "r", "v", "e", "r", " ", "E", "r", "r", "o", "r">> @@
    501 :> <<"5", "0", "1", " ", "N", "o", "t", " ", "I", "m", "p", "l", "e", "m", "e", "n", "t", "e", "d">> @@
    502 :> <<"5", "0", "2", " ", "B", "a", "d", " ", "G", "a", "t", "e", "w", "a", "y">> @@
    503 :> <<"5", "0", "3", " ", "S", "e", "r", "v", "i", "c", "e", " ", "U", "n", "a", "v", "a", "i", "l", "a", "b", "l", "e">> @@
    504 :> <<"5", "0", "4", " ", "G", "a", "t", "e", "w", "a", "y", " ", "T", "i", "m", "e", "o", "u", "t">> @@
    505 :> <<"5", "0", "5", " ", "H", "T", "T", "P", " ", "V", "e", "r", "s", "i", "o", "n", " ", "N", "o", "t", " ", "S", "u", "p", "p", "o", "r", "t", "e", "d">> @@
    506 :> <<"5", "0", "6", " ", "V", "a", "r", "i", "a", "n", "t", " ", "A", "l", "s", "o", " ", "N", "e", "g", "o", "t", "i", "a", "t", "e", "s">> @@
    507 :> <<"5", "0", "7", " ", "I", "n", "s", "u", "f", "f", "i", "c", "i", "e", "n", "t", " ", "S", "t", "o", "r", "a", "g", "e">> @@
    508 :> <<"5", "0", "8", " ", "L", "o", "o", "p", " ", "D", "e", "t", "e", "c", "t", "e", "d">> @@
    510 :> <<"5", "1", "0", " ", "N", "o", "t", " ", "E", "x", "t", "e", "n", "d", "e", "d">> @@
    511 :> <<"5", "1", "1", " ", "N", "e", "t", "w", "o", "r", "k", " ", "A", "u", "t", "h", "e", "n", "t", "i", "c", "a", "t", "i", "o", "n", " ", "R", "e", "q", "u", "i", "r", "e", "d">>

HttpResponseCodeToString(code) ==
    IF code \in DOMAIN ResponseCodeStrings
    THEN [null |-> FALSE, str |-> ResponseCodeStrings[code]]
    ELSE NullString

\* HttpContentTypeToString: the switch over HttpContentType
ContentTypeStrings ==
    "TEXT_PLAIN" :> <<"t", "e", "x", "t", "/", "p", "l", "a", "i", "n">> @@
    "TEXT_HTML" :> <<"t", "e", "x", "t", "/", "h", "t", "m", "l">> @@
    "TEXT_CSS" :> <<"t", "e", "x", "t", "/", "c", "s", "s">> @@
    "TEXT_JAVASCRIPT" :> <<"t", "e", "x", "t", "/", "j", "a", "v", "a", "s", "c", "r", "i", "p", "t">> @@
    "APPLICATION_JSON" :> <<"a", "p", "p", "l", "i", "c", "a", "t", "i", "o", "n", "/", "j", "s", "o", "n">> @@
    "APPLICATION_XML" :> <<"a", "p", "p", "l", "i", "c", "a", "t", "i", "o", "n", "/", "x", "m", "l">> @@
    "APPLICATION_JAVASCRIPT" :> <<"a", "p", "p", "l", "i", "c", "a", "t", "i", "o", "n", "/", "j", "a", "v", "a", "s", "c", "r", "i", "p", "t">> @@
    "APPLICATION_PDF" :> <<"a", "p", "p", "l", "i", "c", "a", "t", "i", "o", "n", "/", "p", "d", "f">> @@
    "APPLICATION_ZIP" :> <<"a", "p", "p", "l", "i", "c", "a", "t", "i", "o", "n", "/", "z", "i", "p">> @@
    "APPLICATION_OCTET_STREAM" :> <<"a", "p", "p", "l", "i", "c", "a", "t", "i", "o", "n", "/", "o", "c", "t", "e", "t", "-", "s", "t", "r", "e", "a", "m">> @@
    "IMAGE_JPEG" :> <<"i", "m", "a", "g", "e", "/", "j", "p", "e", "g">> @@
    "IMAGE_PNG" :> <<"i", "m", "a", "g", "e", "/", "p", "n", "g">> @@
    "IMAGE_GIF" :> <<"i", "m", "a", "g", "e", "/", "g", "i", "f">> @@
    "IMAGE_BMP" :> <<"i", "m", "a", "g", "e", "/", "b", "m", "p">> @@
    "IMAGE_SVG_XML" :> <<"i", "m", "a", "g", "e", "/", "s", "v", "g", "+", "x", "m", "l">> @@
    "AUDIO_MPEG" :> <<"a", "u", "d", "i", "o", "/", "m", "p", "e", "g">> @@
    "AUDIO_OGG" :> <<"a", "u", "d", "i", "o", "/", "o", "g", "g">> @@
    "AUDIO_WAV" :> <<"a", "u", "d", "i", "o", "/", "w", "a", "v">> @@
    "VIDEO_MP4" :> <<"v", "i", "d", "e", "o", "/", "m", "p", "4">> @@
    "VIDEO_WEBM" :> <<"v", "i", "d", "e", "o", "/", "w", "e", "b", "m">> @@
    "VIDEO_OGG" :> <<"v", "i", "d", "e", "o", "/", "o", "g", "g">>

HttpContentTypeToString(type) ==
    IF type \in DOMAIN ContentTypeStrings
    THEN [null |-> FALSE, str |-> ContentTypeStrings[type]]
    ELSE NullString

\* the members of enum HttpContentType
HttpContentType ==
    {"TEXT_HTML", "TEXT_PLAIN", "TEXT_CSS", "TEXT_JAVASCRIPT",
     "APPLICATION_JSON", "APPLICATION_XML", "APPLICATION_JAVASCRIPT",
     "APPLICATION_PDF", "APPLICATION_OCTET_STREAM",
     "APPLICATION_X_WWW_FORM_URLENCODED", "APPLICATION_ZIP",
     "APPLICATION_MS_EXCEL", "APPLICATION_OPENXML_SPREADSHEET",
     "IMAGE_JPEG", "IMAGE_PNG", "IMAGE_GIF", "IMAGE_BMP", "IMAGE_WEBP",
     "IMAGE_SVG_XML", "AUDIO_MPEG", "AUDIO_OGG", "AUDIO_WAV", "VIDEO_MP4",
     "VIDEO_OGG", "VIDEO_WEBM", "MULTIPART_FORM_DATA",
     "MULTIPART_BYTERANGES", "FONT_WOFF", "FONT_WOFF2",
     "APPLICATION_FONT_WOFF", "APPLICATION_LD_JSON", "APPLICATION_GRAPHQL",
     "TEXT_CSV"}

\* the MIME type written beside each member in the declaration of the enum
DeclaredMime ==
    "TEXT_HTML" :> <<"t", "e", "x", "t", "/", "h", "t", "m", "l">> @@
    "TEXT_PLAIN" :> <<"t", "e", "x", "t", "/", "p", "l", "a", "i", "n">> @@
    "TEXT_CSS" :> <<"t", "e", "x", "t", "/", "c", "s", "s">> @@
    "TEXT_JAVASCRIPT" :> <<"t", "e", "x", "t", "/", "j", "a", "v", "a", "s", "c", "r", "i", "p", "t">> @@
    "APPLICATION_JSON" :> <<"a", "p", "p", "l", "i", "c", "a", "t", "i", "o", "n", "/", "j", "s", "o", "n">> @@
    "APPLICATION_XML" :> <<"a", "p", "p", "l", "i", "c", "a", "t", "i", "o", "n", "/", "x", "m", "l">> @@
    "APPLICATION_JAVASCRIPT" :> <<"a", "p", "p", "l", "i", "c", "a", "t", "i", "o", "n", "/", "j", "a", "v", "a", "s", "c", "r", "i", "p", "t">> @@
    "APPLICATION_PDF" :> <<"a", "p", "p", "l", "i", "c", "a", "t", "i", "o", "n", "/", "p", "d", "f">> @@
    "APPLICATION_OCTET_STREAM" :> <<"a", "p", "p", "l", "i", "c", "a", "t", "i", "o", "n", "/", "o", "c", "t", "e", "t", "-", "s", "t", "r", "e", "a", "m">> @@
    "APPLICATION_X_WWW_FORM_URLENCODED" :> <<"a", "p", "p", "l", "i", "c", "a", "t", "i", "o", "n", "/", "x", "-", "w", "w", "w", "-", "f", "o", "r", "m", "-", "u", "r", "l", "e", "n", "c", "o", "d", "e", "d">> @@
    "APPLICATION_ZIP" :> <<"a", "p", "p", "l", "i", "c", "a", "t", "i", "o", "n", "/", "z", "i", "p">> @@
    "APPLICATION_MS_EXCEL" :> <<"a", "p", "p", "l", "i", "c", "a", "t", "i", "o", "n", "/", "v", "n", "d", ".", "m", "s", "-", "e", "x", "c", "e", "l">> @@
    "APPLICATION_OPENXML_SPREADSHEET" :> <<"a", "p", "p", "l", "i", "c", "a", "t", "i", "o", "n", "/", "v", "n", "d", ".", "o", "p", "e", "n", "x", "m", "l", "f", "o", "r", "m", "a", "t", "s", "-", "o", "f", "f", "i", "c", "e", "d", "o", "c", "u", "m", "e", "n", "t", ".", "s", "p", "r", "e", "a", "d", "s", "h", "e", "e", "t", "m", "l", ".", "s", "h", "e", "e", "t">> @@
    "IMAGE_JPEG" :> <<"i", "m", "a", "g", "e", "/", "j", "p", "e", "g">> @@
    "IMAGE_PNG" :> <<"i", "m", "a", "g", "e", "/", "p", "n", "g">> @@
    "IMAGE_GIF" :> <<"i", "m", "a", "g", "e", "/", "g", "i", "f">> @@
    "IMAGE_BMP" :> <<"i", "m", "a", "g", "e", "/", "b", "m", "p">> @@
    "IMAGE_WEBP" :> <<"i", "m", "a", "g", "e", "/", "w", "e", "b", "p">> @@
    "IMAGE_SVG_XML" :> <<"i", "m", "a", "g", "e", "/", "s", "v", "g", "+", "x", "m", "l">> @@
    "AUDIO_MPEG" :> <<"a", "u", "d", "i", "o", "/", "m", "p", "e", "g">> @@
    "AUDIO_OGG" :> <<"a", "u", "d", "i", "o", "/", "o", "g", "g">> @@
    "AUDIO_WAV" :> <<"a", "u", "d", "i", "o", "/", "w", "a", "v">> @@
    "VIDEO_MP4" :> <<"v", "i", "d", "e", "o", "/", "m", "p", "4">> @@
    "VIDEO_OGG" :> <<"v", "i", "d", "e", "o", "/", "o", "g", "g">> @@
    "VIDEO_WEBM" :> <<"v", "i", "d", "e", "o", "/", "w", "e", "b", "m">> @@
    "MULTIPART_FORM_DATA" :> <<"m", "u", "l", "t", "i", "p", "a", "r", "t", "/", "f", "o", "r", "m", "-", "d", "a", "t", "a">> @@
    "MULTIPART_BYTERANGES" :> <<"m", "u", "l", "t", "i", "p", "a", "r", "t", "/", "b", "y", "t", "e", "r", "a", "n", "g", "e", "s">> @@
    "FONT_WOFF" :> <<"f", "o", "n", "t", "/", "w", "o", "f", "f">> @@
    "FONT_WOFF2" :> <<"f", "o", "n", "t", "/", "w", "o", "f", "f", "2">> @@
    "APPLICATION_FONT_WOFF" :> <<"a", "p", "p", "l", "i", "c", "a", "t", "i", "o", "n", "/", "f", "o", "n", "t", "-", "w", "o", "f", "f">> @@
    "APPLICATION_LD_JSON" :> <<"a", "p", "p", "l", "i", "c", "a", "t", "i", "o", "n", "/", "l", "d", "+", "j", "s", "o", "n">> @@
    "APPLICATION_GRAPHQL" :> <<"a", "p", "p", "l", "i", "c", "a", "t", "i", "o", "n", "/", "g", "r", "a", "p", "h", "q", "l">> @@
    "TEXT_CSV" :> <<"t", "e", "x", "t", "/", "c", "s", "v">>

DecimalDigit == <<"0", "1", "2", "3", "4", "5", "6", "7", "8", "9">>

\* the %zu conversion
RECURSIVE Zu(_)
Zu(n) ==
    IF n < 10 THEN <<DecimalDigit[n + 1]>>
    ELSE Zu(n \div 10) \o <<DecimalDigit[(n % 10) + 1]>>

\* the expansion of the format string of HttpResponseSend
ResponseFormat(response_code, content_type, body_size) ==
    <<"H", "T", "T", "P", "/", "1", ".", "1", " ">> \o response_code \o CRLF
    \o <<"S", "e", "r", "v", "e", "r", ":", " ", "b", "e", "a", "m", "/", "0", ".", "1">>
    \o CRLF
    \o <<"C", "o", "n", "t", "e", "n", "t", "-", "T", "y", "p", "e", ":", " ">>
    \o content_type \o CRLF
    \o <<"C", "o", "n", "t", "e", "n", "t", "-", "L", "e", "n", "g", "t", "h", ":", " ">>
    \o Zu(body_size) \o CRLF
    \o CRLF

\* the bytes snprintf(buf, size, ...) stores for an expansion text: at most
\* size - 1 of them, then the terminating NUL
snprintf(size, text) ==
    IF size = 0 THEN <<>>
    ELSE IF Len(text) <= size - 1 THEN text \o <<NUL>>
    ELSE SubSeq(text, 1, size - 1) \o <<NUL>>

\* memcpy(dst + at, src, Len(src)) on a buffer whose written prefix is dst
memcpy(dst, at, src) ==
    [i \in 1..(IF at + Len(src) > Len(dst) THEN at + Len(src) ELSE Len(dst)) |->
        IF i > at /\ i <= at + Len(src) THEN src[i - at] ELSE dst[i]]

\* a NULL return of HttpResponseSend: nothing was handed to send()
SendFail(response, connfd) ==
    [called |-> TRUE, ok |-> FALSE, sends |-> 0, connfd |-> connfd, data |-> <<>>,
     len |-> 0, response |-> response]

\* HttpResponseSend falling back to text/plain for a content type that has
\* no MIME string
HttpResponseSend_DefaultType(response, connfd) ==
    LET response_code == HttpResponseCodeToString(response.status_code)
        content_type == HttpContentTypeToString(response.content_type)
        mime == IF content_type.null THEN ContentTypeStrings["TEXT_PLAIN"]
                ELSE content_type.str
    IN  IF connfd = 0 THEN SendFail(response, connfd)
        ELSE IF response_code.null THEN SendFail(response, connfd)
        ELSE
            LET body_size == Len(response.body)
                text == ResponseFormat(response_code.str, mime, body_size)
                http_response_size == Len(text)
                total_send_size == SizeAdd(http_response_size, body_size)
                head == snprintf(total_send_size, text)
                send_data == memcpy(head, http_response_size, response.body)
            IN  [called |-> TRUE, ok |-> TRUE, sends |-> 1, connfd |-> connfd,
                 data |-> SubSeq(send_data, 1, total_send_size),
                 len |-> total_send_size, response |-> response]

\* HttpResponseSend(response, connfd): what it hands to send(), if anything
HttpResponseSend(response, connfd) ==
    LET response_code == HttpResponseCodeToString(response.status_code)
        content_type == HttpContentTypeToString(response.content_type)
    IN  IF connfd = 0 THEN SendFail(response, connfd)
        ELSE IF response_code.null THEN SendFail(response, connfd)
        ELSE IF content_type.null THEN SendFail(response, connfd)
        ELSE
            LET body_size == Len(response.body)
                text == ResponseFormat(response_code.str, content_type.str, body_size)
                http_response_size == Len(text)
                total_send_size == SizeAdd(http_response_size, body_size)
                head == snprintf(total_send_size, text)
                send_data == memcpy(head, http_response_size, response.body)
            IN  [called |-> TRUE, ok |-> TRUE, sends |-> 1, connfd |-> connfd,
                 data |-> SubSeq(send_data, 1, total_send_size),
                 len |-> total_send_size, response |-> response]

MaxBody == 2
LongBody == 12
Bodies == {[i \in 1..n |-> "b"] : n \in (0..MaxBody) \cup {LongBody}}
StatusCodeInputs == DOMAIN ResponseCodeStrings \cup {0, 999}
ContentTypeInputs == HttpContentType \cup {"INVALID"}
ConnFds == {0, 4}

\* header lists of a response
MaxResponseHeaders == 2
ResponseHeaders ==
    {[key |-> [id |-> 0, text |-> h.key], value |-> [id |-> 0, text |-> h.value]] :
        h \in HeaderPairs}
ResponseHeaderLists == SeqsUpTo(ResponseHeaders, MaxResponseHeaders)

CallHttpResponseSend(response, connfd) ==
    /\ pc = "idle"
    /\ UNCHANGED <<released_twice, parse_allocs, vecVars, server>>
    /\ call' = "HttpResponseSend"
    /\ \/ /\ sent' = HttpResponseSend(response, connfd)
          /\ pc' = "returned"
       \/ \* malloc returns NULL, which is not checked: snprintf writes to it
          /\ HttpResponseSend(response, connfd).ok
          /\ sent' = sent
          /\ pc' = "crashed"
    /\ UNCHANGED <<mem, remaining_size, pos, rem_size, all_rem_size, request,
                   header, more_headers_remain, ret, failed_in, live, unit,
                   size_in>>

Next ==
    \/ /\ pc = "idle"
       /\ \E m \in Messages : \E n \in 0..Len(m) : CallHttpRequestParse(m, n)
    \/ /\ pc = "idle"
       /\ \E m \in MethodInputs : \E n \in 0..Len(m) :
            CallHttpRequestMethodParse(m, n)
    \/ /\ pc = "idle"
       /\ \E m \in UrlInputs : \E n \in 0..Len(m) : CallHttpUrlParse(m, n)
    \/ /\ pc = "idle"
       /\ \E m \in VersionInputs : \E n \in 0..Len(m) :
            CallHttpVersionValidate(m, n)
    \/ /\ pc = "idle"
       /\ \E m \in HeaderInputs : \E n \in 0..Len(m) : \E b \in BOOLEAN :
            CallHttpHeaderParse(m, n, b)
    \/ /\ pc = "idle"
       /\ \E c \in StatusCodeInputs : \E t \in ContentTypeInputs :
          \E hs \in ResponseHeaderLists : \E b \in Bodies : \E fd \in ConnFds :
            CallHttpResponseSend(
                [status_code |-> c, content_type |-> t, headers |-> hs,
                 body |-> b], fd)
    \/ /\ pc = "idle"
       /\ \E hs \in FindLists : \E k \in FindKeys : CallHttpHeadersFind(hs, k)
    \/ MethodPhase
    \/ UrlPhase
    \/ VersionPhase
    \/ HeadersParseAllEnter
    \/ HeaderLoopIter
    \/ HeaderLoopFault
    \/ CallHttpHeadersFreeAll
    \/ HttpRequestReset
    \/ NextCall

Spec == Init /\ [][Next]_vars

(***************************************************************************)
(* One HttpRequest over a sequence of HttpRequestParse, HttpHeadersFreeAll *)
(* and HttpRequestReset calls                                              *)
(***************************************************************************)
\* the caller keeps the request as the call left it and moves on
KeepRequest ==
    /\ HoldsRequest
    /\ mem' = <<>>
    /\ remaining_size' = 0
    /\ pc' = "idle"
    /\ call' = "none"
    /\ pos' = NULL
    /\ rem_size' = 0
    /\ all_rem_size' = 0
    /\ header' = NoHeader
    /\ more_headers_remain' = FALSE
    /\ ret' = NULL
    /\ failed_in' = "none"
    /\ unit' = NoUnit
    /\ size_in' = 0
    /\ sent' = NoSend
    /\ live' = live \cap Reachable(request)
    /\ UNCHANGED <<request, released_twice, parse_allocs, vecVars, server>>

\* no further parse is started once this many texts are allocated
MaxLive == 6

OneHeader == <<[key |-> K1, value |-> V1]>>
TwoHeaders == <<[key |-> K1, value |-> V1], [key |-> K2, value |-> V2]>>

\* the buffers and lengths of the sequence: complete messages, a message
\* cut after the request line, a broken second header line, another
\* version, a zero length
SeqInputs ==
    {<<Message(GET, <<"/">>, OneHeader), Len(Message(GET, <<"/">>, OneHeader))>>,
     <<Message(PUT, <<"/", "a", "b">>, TwoHeaders),
       Len(Message(PUT, <<"/", "a", "b">>, TwoHeaders))>>,
     <<Message(GET, <<"/">>, OneHeader), Len(RequestLine(GET, <<"/">>, HTTP11))>>,
     <<RequestLine(GET, <<"/">>, HTTP11) \o HeaderBlock(OneHeader)
         \o K1 \o <<SP>> \o V1 \o CRLF \o CRLF,
       Len(RequestLine(GET, <<"/">>, HTTP11)) + Len(HeaderBlock(OneHeader)) + 7>>,
     <<RequestLine(GET, <<"/">>, HTTP10) \o HeaderBlock(OneHeader) \o CRLF,
       Len(RequestLine(GET, <<"/">>, HTTP10)) + Len(HeaderBlock(OneHeader)) + 2>>,
     <<Message(GET, <<"/">>, OneHeader), 0>>}

SeqNext ==
    \/ /\ pc = "idle"
       /\ Cardinality(live) <= MaxLive
       /\ \E i \in SeqInputs : CallHttpRequestParse(i[1], i[2])
    \/ MethodPhase
    \/ UrlPhase
    \/ VersionPhase
    \/ HeadersParseAllEnter
    \/ HeaderLoopIter
    \/ CallHttpHeadersFreeAll
    \/ HttpRequestReset
    \/ KeepRequest
    \/ NextCall

SeqSpec == Init /\ [][SeqNext]_vars

(***************************************************************************)
(* The accept loop of main (src/source/main.c), one HttpRequest req for    *)
(* all connections                                                         *)
(***************************************************************************)
\* descriptors the process can hold for connections; accept fails beyond
MaxConn == 3

\* accept(): the lowest free descriptor, or -1 and main returns
SrvAccept ==
    /\ server.stage = "accept"
    /\ pc = "idle"
    /\ \/ /\ Cardinality(server.open) < MaxConn
          /\ LET connfd == CHOOSE fd \in 1..MaxConn :
                              /\ fd \notin server.open
                              /\ \A g \in 1..(fd - 1) : g \in server.open
             IN  server' = [stage |-> "recv", connfd |-> connfd,
                            open |-> server.open \cup {connfd}]
       \/ server' = [server EXCEPT !.stage = "exited"]
    /\ UNCHANGED <<httpVars, vecVars>>

\* recv(): -1 closes connfd and continues; otherwise the message is parsed
SrvRecv ==
    /\ server.stage = "recv"
    /\ \/ server' = [server EXCEPT !.stage = "accept",
                                    !.open = @ \ {server.connfd}]
       \/ server' = [server EXCEPT !.stage = "parse"]
    /\ UNCHANGED <<httpVars, vecVars>>

\* if(!HttpRequestParse(&req, buf, &rem_size))
SrvParsed ==
    /\ server.stage = "parse"
    /\ pc = "returned"
    /\ call = "HttpRequestParse"
    /\ server' = [server EXCEPT !.stage = IF ret = NULL THEN "failed" ELSE "main"]
    /\ UNCHANGED <<httpVars, vecVars>>

\* the failure branch: the bad-request response is built, sent and reset,
\* then continue; neither req nor connfd is touched
SrvContinue ==
    /\ server.stage = "failed"
    /\ server' = [server EXCEPT !.stage = "accept"]
    /\ UNCHANGED <<httpVars, vecVars>>

\* ServerMain(connfd, req) answers the request; it leaves req and connfd
SrvServerMain ==
    /\ server.stage = "main"
    /\ server' = [server EXCEPT !.stage = "reset"]
    /\ UNCHANGED <<httpVars, vecVars>>

\* close(connfd) after HttpRequestReset(&req)
SrvClose ==
    /\ server.stage = "reset"
    /\ pc = "reset"
    /\ server' = [server EXCEPT !.stage = "accept",
                                !.open = @ \ {server.connfd}]
    /\ UNCHANGED <<httpVars, vecVars>>

ServerNext ==
    \/ SrvAccept
    \/ SrvRecv
    \/ /\ server.stage = "parse"
       /\ pc = "idle"
       /\ \E i \in SeqInputs : CallHttpRequestParse(i[1], i[2])
    \/ MethodPhase
    \/ UrlPhase
    \/ VersionPhase
    \/ HeadersParseAllEnter
    \/ HeaderLoopIter
    \/ SrvParsed
    \/ SrvContinue
    \/ SrvServerMain
    \/ server.stage = "reset" /\ HttpRequestReset
    \/ SrvClose
    \/ server.stage = "accept" /\ KeepRequest
    \/ server.stage = "accept" /\ NextCall

ServerSpec == Init /\ [][ServerNext]_vars

(***************************************************************************)
(* The generic vector (src/source/container/vec.c), with copy_init and     *)
(* copy_deinit NULL.  An item is one slot holding a value of Items; 0 is a  *)
(* zeroed slot.  Slot offsets are signed: an offset of SIZE_MAX items is    *)
(* the slot before the block.  An access outside the block is undefined:   *)
(* the process faults, or it goes on with reads yielding some value and     *)
(* writes landing outside the vector.                                       *)
(***************************************************************************)
MaxCap == 4
MaxVal == 1
Items == 1..MaxVal
BLOCK == 1
Indeterminate == -1
SIZE_MAX == SIZE_MOD - 1
Signed(x) == IF x >= SIZE_MOD \div 2 THEN x - SIZE_MOD ELSE x

Outcome(v, r) == [vec |-> v, ret |-> r]

\* the slot at 0-based offset i, j when it lies outside the block
Rd(slots, i, j) == IF 0 <= i /\ i < Len(slots) THEN slots[i + 1] ELSE j

\* memset(data + off, 0, n) on the slots of the block
memset(slots, off, n) ==
    [k \in 1..Len(slots) |->
        IF off <= k - 1 /\ k - 1 < off + n THEN 0 ELSE slots[k]]

\* memmove(data + dst, data + src, n) on the slots of the block
memmove(slots, dst, src, n, j) ==
    [k \in 1..Len(slots) |->
        IF dst <= k - 1 /\ k - 1 < dst + n
        THEN Rd(slots, src + (k - 1 - dst), j) ELSE slots[k]]

\* memcpy(data + dst, arr, Len(arr)) on the slots of the block
CopyIn(slots, dst, arr) ==
    [k \in 1..Len(slots) |->
        IF dst <= k - 1 /\ k - 1 < dst + Len(arr) THEN arr[k - dst] ELSE slots[k]]

\* an access of n slots at offset off: outside the block, and so large that
\* it cannot lie in mapped memory
Outside(v, off, n) == n > 0 /\ (off < 0 \/ off + n > v.capacity)
Far(n) == n >= SIZE_MOD \div 2

\* the outcomes of a function body whose accesses are acc and which leaves
\* the vectors vs when it runs to its end
Run(v, acc, vs, r) ==
    IF \E a \in acc : Outside(v, a[1], a[2]) /\ (Far(a[2]) \/ v.data = NULL)
    THEN {Outcome(v, "fault")}
    ELSE IF \E a \in acc : Outside(v, a[1], a[2])
    THEN {Outcome(v, "fault")} \cup {Outcome(w, r) : w \in vs}
    ELSE {Outcome(w, r) : w \in vs}

\* realloc(vec->data, n * item_size) when it succeeds: the first
\* min(capacity, n) slots are kept, the others are indeterminate
realloc(v, n) ==
    [k \in 1..n |-> IF k <= v.capacity THEN v.slots[k] ELSE Indeterminate]

deinit_vec(v) == {Outcome(ZeroVec, "void")}

init_vec(v, copy_init, copy_deinit) ==
    {Outcome([o.vec EXCEPT !.copy_init = copy_init,
                           !.copy_deinit = copy_deinit], "vec") :
        o \in deinit_vec(v)}

\* clear_vec handing every slot of the block to the hook
clear_vec_WholeBlock(v) ==
    {[vec |-> [v EXCEPT !.length = 0],
      ret |-> "vec",
      released |-> [i \in 1..v.capacity |-> i - 1]]}

\* released lists, in order, the slots the loop hands to copy_deinit; the
\* hook releases what the item owns and leaves the slot's bytes alone
clear_vec(v) ==
    {[vec |-> [v EXCEPT !.slots = IF v.data # NULL /\ v.copy_deinit = NULL
                                  THEN memset(v.slots, 0, v.capacity)
                                  ELSE v.slots,
                        !.length = 0],
      ret |-> "vec",
      released |-> IF v.data # NULL /\ v.copy_deinit # NULL
                   THEN [i \in 1..v.length |-> i - 1]
                   ELSE <<>>]}

\* the body of the if when the block that realloc returns is all new
Grow_Fresh(v, n) ==
    {Outcome(v, "NULL"),
     Outcome([v EXCEPT !.slots = [k \in 1..n |-> 0],
                       !.data = BLOCK,
                       !.capacity = n], "vec")}

\* the body of the if of expand_vec and of reserve_vec
Grow(v, n) ==
    {Outcome(v, "NULL"),
     Outcome([v EXCEPT !.slots = memset(realloc(v, n), v.capacity, n - v.capacity),
                       !.data = BLOCK,
                       !.capacity = n], "vec")}

\* expand_vec growing by one slot instead of doubling
expand_vec_ByOne(v) ==
    IF v.length + 1 > v.capacity
    THEN Grow(v, v.capacity + 1)
    ELSE {Outcome(v, "vec")}

expand_vec(v) ==
    IF v.length + 1 > v.capacity
    THEN Grow(v, IF v.capacity = 0 THEN 1 ELSE v.capacity * 2)
    ELSE {Outcome(v, "vec")}

reserve_vec(v, n) ==
    IF n > v.capacity THEN Grow(v, n) ELSE {Outcome(v, "vec")}

\* the while loop of reserve_pow2_vec: n2 doubles until it is at least n,
\* and is 0 from then on once the shift overflows
RECURSIVE Pow2From(_, _)
Pow2From(n2, n) ==
    IF n2 >= n THEN n2
    ELSE IF n2 = 0 THEN 0
    ELSE Pow2From((n2 * 2) % SIZE_MOD, n)

reserve_pow2_vec(v, n) ==
    IF n = 0 THEN {Outcome(v, "vec")}
    ELSE IF Pow2From(1, n) = 0 THEN {Outcome(v, "hang")}
    ELSE reserve_vec(v, Pow2From(1, n))

reduce_space_vec(v) ==
    IF v.length = 0
    THEN {Outcome(ZeroVec, "NULL")}
    ELSE {Outcome(v, "NULL"),
          Outcome([v EXCEPT !.slots = realloc(v, v.length),
                            !.capacity = v.length], "vec")}

\* the tail of the two inserts when both move the item at idx to the end
InsertAt_MoveToEnd(w, item, idx, fast) ==
    IF idx < w.length
    THEN Outcome([w EXCEPT !.slots =
                      CopyIn(CopyIn(w.slots, w.length, <<w.slots[idx + 1]>>),
                             idx, <<item>>),
                           !.length = w.length + 1], "vec")
    ELSE IF idx = w.length
    THEN Outcome([w EXCEPT !.slots = CopyIn(w.slots, w.length, <<item>>),
                           !.length = w.length + 1], "vec")
    ELSE Outcome(w, "NULL")

\* the tail of insert_into_vec (fast = FALSE) and insert_fast_into_vec
\* (fast = TRUE) once expand_vec returned w
InsertAt(w, item, idx, fast) ==
    IF idx < w.length
    THEN LET moved == IF fast
                      THEN CopyIn(w.slots, w.length, <<w.slots[idx + 1]>>)
                      ELSE memmove(w.slots, idx + 1, idx, w.length - idx, 0)
         IN  Outcome([w EXCEPT !.slots = CopyIn(moved, idx, <<item>>),
                               !.length = w.length + 1], "vec")
    ELSE IF idx = w.length
    THEN Outcome([w EXCEPT !.slots = CopyIn(w.slots, w.length, <<item>>),
                           !.length = w.length + 1], "vec")
    ELSE Outcome(w, "NULL")

insert_into_vec(v, item, idx) ==
    {IF e.ret = "NULL" THEN e ELSE InsertAt(e.vec, item, idx, FALSE) :
        e \in expand_vec(v)}

insert_fast_into_vec(v, item, idx) ==
    {IF e.ret = "NULL" THEN e ELSE InsertAt(e.vec, item, idx, TRUE) :
        e \in expand_vec(v)}

\* remove_range_vec; removed says whether removed_data is not NULL
remove_range_vec(v, removed, start, count) ==
    IF SizeAdd(start, count) > v.length
    THEN {Outcome(v, "NULL")}
    ELSE LET at == Signed(start)
             from == Signed(SizeAdd(start, count))
             rest == SizeSub(SizeSub(v.length, start), count)
             taken == IF removed \/ v.copy_deinit # NULL
                      THEN v.slots
                      ELSE memset(v.slots, at, count)
         IN  Run(v, {<<at, count>>, <<at, rest>>, <<from, rest>>,
                     <<Signed(rest), count>>},
                 {[v EXCEPT !.slots = memset(memmove(taken, at, from, rest, j),
                                             Signed(rest), count),
                            !.length = SizeSub(v.length, count)] :
                    j \in 0..MaxVal},
                 "vec")

\* fast_remove_range_vec
fast_remove_range_vec(v, removed, start, count) ==
    IF SizeAdd(start, count) > v.length
    THEN {Outcome(v, "NULL")}
    ELSE LET at == Signed(start)
             from == Signed(SizeSub(v.length, count))
             rest == SizeSub(SizeSub(v.length, start), count)
             taken == IF removed \/ v.copy_deinit # NULL
                      THEN v.slots
                      ELSE memset(v.slots, at, count)
         IN  Run(v, {<<at, count>>, <<from, count>>, <<Signed(rest), count>>},
                 {[v EXCEPT !.slots = memset(memmove(taken, at, from, count, j),
                                             Signed(rest), count),
                            !.length = SizeSub(v.length, count)] :
                    j \in 0..MaxVal},
                 "vec")

\* the tail of push_arr_vec once reserve_pow2_vec returned w; p is pos
PushArrAt(w, arr, p) ==
    LET count == Len(arr)
        shifted == IF p < w.length
                   THEN memset(memmove(w.slots, p + count, p, count, 0),
                               p, count)
                   ELSE w.slots
    IN  Run(w, IF p < w.length
               THEN {<<p + count, count>>, <<p, count>>}
               ELSE {<<p, count>>},
            {[w EXCEPT !.slots = CopyIn(shifted, p, arr),
                       !.length = SizeAdd(w.length, count)]},
            "vec")

push_arr_vec(v, arr, p) ==
    IF Len(arr) = 0 \/ p > v.length
    THEN {Outcome(v, "NULL")}
    ELSE UNION {IF r.ret = "vec" THEN PushArrAt(r.vec, arr, p)
                ELSE {Outcome(v, r.ret)} :
                    r \in reserve_pow2_vec(v, SizeAdd(v.length, Len(arr)))}

resize_vec(v, new_size) ==
    IF new_size <= v.capacity
    THEN {IF r.ret = "fault" THEN r
          ELSE Outcome([r.vec EXCEPT !.length = new_size], "vec") :
              r \in IF new_size < v.length
                    THEN remove_range_vec(v, FALSE, new_size, v.length - new_size)
                    ELSE {Outcome(v, "vec")}}
    ELSE {IF r.ret = "vec"
          THEN Outcome([r.vec EXCEPT !.length = new_size], "vec")
          ELSE Outcome(v, r.ret) :
              r \in reserve_pow2_vec(v, new_size)}

(***************************************************************************)
(* One vector over a sequence of calls                                     *)
(***************************************************************************)
MaxArr == 2
Indexes == 0..(MaxCap + 1)
Sizes == 0..MaxCap
Offsets == (0..MaxCap) \cup {SIZE_MAX}
Arrs == UNION {[1..n -> Items] : n \in 0..MaxArr}

\* the caller makes the call fn(args), whose outcomes are outs; no call is
\* made that could raise the capacity above MaxCap
VecCall(fn, args, outs) ==
    /\ vcall.fn = "none"
    /\ \A o \in outs : o.vec.capacity <= MaxCap
    /\ \E o \in outs :
          /\ vec' = o.vec
          /\ vcall' = [fn |-> fn, args |-> args, before |-> vec, ret |-> o.ret]
          /\ pushes' =
                IF fn = "init_vec" THEN NoPushes
                ELSE IF fn = "insert_into_vec" /\ args[2] = vec.length
                THEN IF o.ret = "vec"
                     THEN [pushes EXCEPT !.items = Append(pushes.items, args[1])]
                     ELSE pushes
                ELSE [only |-> FALSE, items |-> <<>>]
    /\ UNCHANGED <<httpVars, server>>

VecInit(ci, cd) == VecCall("init_vec", <<ci, cd>>, init_vec(vec, ci, cd))
VecDeinit == VecCall("deinit_vec", <<>>, deinit_vec(vec))
VecClear ==
    /\ vcall.fn = "none"
    /\ \E o \in clear_vec(vec) :
          /\ vec' = o.vec
          /\ vcall' = [fn |-> "clear_vec", args |-> <<>>, before |-> vec,
                       ret |-> o.ret, released |-> o.released]
    /\ pushes' = [only |-> FALSE, items |-> <<>>]
    /\ UNCHANGED <<httpVars, server>>
VecExpand == VecCall("expand_vec", <<>>, expand_vec(vec))
VecReserve(n) == VecCall("reserve_vec", <<n>>, reserve_vec(vec, n))
VecReservePow2(n) == VecCall("reserve_pow2_vec", <<n>>, reserve_pow2_vec(vec, n))
VecTryReduceSpace == VecCall("reduce_space_vec", <<>>, reduce_space_vec(vec))
VecInsert(val, idx) ==
    VecCall("insert_into_vec", <<val, idx>>, insert_into_vec(vec, val, idx))
VecInsertFast(val, idx) ==
    VecCall("insert_fast_into_vec", <<val, idx>>,
            insert_fast_into_vec(vec, val, idx))
VecRemoveRange(rd, start, count) ==
    VecCall("remove_range_vec", <<rd, start, count>>,
            remove_range_vec(vec, rd, start, count))
VecRemoveRangeFast(rd, start, count) ==
    VecCall("fast_remove_range_vec", <<rd, start, count>>,
            fast_remove_range_vec(vec, rd, start, count))
VecPushArr(arr, p) == VecCall("push_arr_vec", <<arr, p>>, push_arr_vec(vec, arr, p))
VecResize(len) == VecCall("resize_vec", <<len>>, resize_vec(vec, len))

\* the caller moves on to its next call, unless the call did not return or
\* ran outside the block of the vector
VecReturn ==
    /\ vcall.fn # "none"
    /\ vcall.ret \notin {"fault", "hang"}
    /\ vec.length <= vec.capacity
    /\ vcall' = NoVecCall
    /\ UNCHANGED <<vec, pushes, httpVars, server>>

VecOps ==
    \/ VecReturn
    \/ VecDeinit
    \/ VecClear
    \/ VecExpand
    \/ \E n \in Sizes : VecReserve(n)
    \/ \E n \in Sizes \cup {SIZE_MAX} : VecReservePow2(n)
    \/ VecTryReduceSpace
    \/ \E val \in Items : \E idx \in Indexes : VecInsert(val, idx)
    \/ \E val \in Items : \E idx \in Indexes : VecInsertFast(val, idx)
    \/ \E rd \in BOOLEAN : \E start \in Offsets : \E count \in Offsets :
          VecRemoveRange(rd, start, count)
    \/ \E rd \in BOOLEAN : \E start \in Offsets : \E count \in Offsets :
          VecRemoveRangeFast(rd, start, count)
    \/ \E arr \in Arrs : \E p \in Indexes : VecPushArr(arr, p)
    \/ \E len \in Sizes \cup {SIZE_MAX} : VecResize(len)

VecNext ==
    \/ VecInit(NULL, NULL)
    \/ VecOps

VecSpec == Init /\ [][VecNext]_vars

(***************************************************************************)
(* The same calls on a vector initialised with both hooks.  copy_init      *)
(* copies the item into the slot, as the memcpy of the other branch does.  *)
(***************************************************************************)
HOOK == 1
HookNext ==
    \/ VecInit(HOOK, HOOK)
    \/ VecOps

HookSpec == Init /\ [][HookNext]_vars

(***************************************************************************)
(* An initialised vector that is only pushed to                            *)
(***************************************************************************)
MaxPushVal == 3
VecPushBack(val) ==
    VecCall("insert_into_vec", <<val, vec.length>>,
            insert_into_vec(vec, val, vec.length))

PushNext ==
    \/ VecReturn
    \/ VecInit(NULL, NULL)
    \/ \E val \in 1..MaxPushVal : VecPushBack(val)

PushSpec == Init /\ [][PushNext]_vars

(***************************************************************************)
(* Properties                                                              *)
(***************************************************************************)
Returned(fn) == pc = "returned" /\ call = fn

\* the {key, value} texts of a header vector
HeaderTexts(hs) ==
    [i \in 1..Len(hs) |-> [key |-> hs[i].key.text, value |-> hs[i].value.text]]

\* C1: every complete message M SP U SP HTTP/1.1 CRLF (K: V CRLF){n>=1} CRLF
\* given with its exact length parses successfully with url = U, the headers
\* in message order and remaining length 0, for every method token M.
C1_WellFormedParses ==
    \A M \in MethodTokens : \A U \in UrlTokens : \A hs \in HeaderLists :
        (/\ Returned("HttpRequestParse")
         /\ Len(hs) >= 1
         /\ mem = Message(M, U, hs)
         /\ size_in = Len(mem))
        => /\ ret # NULL
           /\ request.url.id # 0
           /\ request.url.text = U
           /\ HeaderTexts(request.headers) = hs
           /\ remaining_size = 0

\* a non-empty run of bytes free of the given delimiters
IsToken(b, delims) == Len(b) >= 1 /\ \A i \in 1..Len(b) : b[i] \notin delims

\* b is exactly Key ':' SP Value CRLF
IsHeaderLine(b) ==
    \E k \in 2..Len(b) :
        /\ IsToken(SubSeq(b, 1, k - 1), {COLON, SP, CR, LF})
        /\ Len(b) >= k + 4
        /\ b[k] = COLON
        /\ b[k + 1] = SP
        /\ b[k + 2] # SP
        /\ IsToken(SubSeq(b, k + 2, Len(b) - 2), {CR, LF})
        /\ SubSeq(b, Len(b) - 1, Len(b)) = CRLF

\* b is *(Key ':' SP Value CRLF) CRLF
RECURSIVE IsHeaderSection(_)
IsHeaderSection(b) ==
    \/ b = CRLF
    \/ \E e \in 1..Len(b) :
        /\ IsHeaderLine(SubSeq(b, 1, e))
        /\ IsHeaderSection(SubSeq(b, e + 1, Len(b)))

\* b is METHOD SP URL SP HTTP/1.1 CRLF *(Key ':' SP Value CRLF) CRLF
IsCompleteMessage(b) ==
    \E i \in 1..Len(b) : \E j \in (i + 1)..Len(b) :
        /\ b[i] = SP
        /\ b[j] = SP
        /\ IsToken(SubSeq(b, 1, i - 1), {SP, CR, LF})
        /\ IsToken(SubSeq(b, i + 1, j - 1), {SP, CR, LF})
        /\ Len(b) >= j + 10
        /\ SubSeq(b, j + 1, j + 10) = VersionLiteral
        /\ IsHeaderSection(SubSeq(b, j + 11, Len(b)))

PhaseFunctions ==
    {"HttpRequestMethodParse", "HttpUrlParse", "HttpVersionValidate",
     "HttpHeaderParse", "HttpRequestParse"}

\* C3: when a parse function returns NULL, the caller's remaining_size holds
\* the value it had before the call; for HttpHeadersParseAll the caller's
\* variable is the rem_size local of HttpRequestParse.
C3_FailureKeepsRemainingSize ==
    /\ [](\A fn \in PhaseFunctions :
            (Returned(fn) /\ ret = NULL) => remaining_size = size_in)
    /\ [][(pc \in {"headers", "loop"} /\ pc' = "returned" /\ ret' = NULL)
            => rem_size' = rem_size]_vars

C3_Witness ==
    /\ Returned("HttpRequestParse")
    /\ ret = NULL
    /\ failed_in = "headers"
    /\ Len(request.headers) >= 1
    /\ all_rem_size < rem_size
    /\ remaining_size = size_in

\* the enum member whose verb is the token T, UNKNOWN when there is none
ExpectedMethod(T) ==
    IF \E v \in DOMAIN VerbText : VerbText[v] = T
    THEN CHOOSE v \in DOMAIN VerbText : VerbText[v] = T
    ELSE "UNKNOWN"

\* C4: on a line whose first token T is non-empty HttpRequestMethodParse
\* succeeds and sets method to T's own enum member when T is one of the nine
\* verbs and to UNKNOWN otherwise.
C4_MethodClassified ==
    \A T \in MethodTokens :
        (/\ Returned("HttpRequestMethodParse")
         /\ Len(mem) > Len(T)
         /\ SubSeq(mem, 1, Len(T) + 1) = T \o <<SP>>
         /\ memchr(mem, 1, CR, size_in) > Len(T) + 1)
        => /\ ret # NULL
           /\ unit.method = ExpectedMethod(T)

\* the verbs the method phase recognises
RecognisedVerbs == {M \in Verbs : MethodClassify(M, 1, Len(M)).method # "UNKNOWN"}

\* C5: a message with a recognised verb, a non-empty url and no header line
\* parses successfully with an empty header list and remaining length 0.
C5_NoHeadersParses ==
    \A M \in RecognisedVerbs : \A U \in UrlTokens :
        (/\ Returned("HttpRequestParse")
         /\ mem = Message(M, U, <<>>)
         /\ size_in = Len(mem))
        => /\ ret # NULL
           /\ request.headers = <<>>
           /\ remaining_size = 0

\* C6: HttpHeaderParse succeeds on a non-empty window only when the window
\* starts with a line of the exact shape Key ':' SP Value CRLF.
C6_HeaderShape ==
    (Returned("HttpHeaderParse") /\ size_in > 0 /\ ret # NULL)
    => \E e \in 1..size_in : IsHeaderLine(SubSeq(mem, 1, e))

\* C7: HttpUrlParse fails, leaving remaining_size unchanged, when the byte at
\* the position is already the separating space (a zero-length url).
C7_EmptyUrlFails ==
    (Returned("HttpUrlParse") /\ size_in > 0 /\ Byte(mem, 1) = SP)
    => /\ ret = NULL
       /\ remaining_size = size_in

C9_HeadersReleasedOnFailure ==
    (Returned("HttpRequestParse") /\ ret = NULL /\ failed_in = "headers")
    => /\ request.headers = <<>>
       /\ live \subseteq {request.url.id}

\* C10: for a known status code and content type HttpResponseSend hands to
\* send exactly the status line, the Server, Content-Type and Content-Length
\* lines, a blank line and the body, with the length of all of it.
C10_SentBytes ==
    (Returned("HttpResponseSend") /\ sent.sends = 1
     /\ sent.response.headers = <<>>)
    => LET r == sent.response
           head == ResponseFormat(ResponseCodeStrings[r.status_code],
                                  ContentTypeStrings[r.content_type],
                                  Len(r.body))
       IN  /\ sent.data = head \o r.body
           /\ sent.len = Len(head) + Len(r.body)

\* C11: for a response with at least one header, the bytes handed to send
\* carry each header of response.headers as key ': ' value CRLF, once and in
\* list order, right after the Content-Length line and before the blank line.
C11_HeadersEmitted ==
    (Returned("HttpResponseSend") /\ sent.sends = 1
     /\ Len(sent.response.headers) >= 1)
    => LET r == sent.response
           text == ResponseFormat(ResponseCodeStrings[r.status_code],
                                  ContentTypeStrings[r.content_type],
                                  Len(r.body))
           upto == Len(text) - 2
           block == HeaderBlock(HeaderTexts(r.headers)) \o CRLF
       IN  /\ Len(sent.data) >= upto + Len(block)
           /\ SubSeq(sent.data, upto + 1, upto + Len(block)) = block

\* C12: HttpResponseSend returns failure and calls send not once whenever the
\* status code has no reason phrase or the content type has no MIME string in
\* the lookup tables.
C12_UnknownFailsBeforeOutput ==
    (/\ Returned("HttpResponseSend")
     /\ \/ sent.response.status_code \notin DOMAIN ResponseCodeStrings
        \/ sent.response.content_type \notin DOMAIN ContentTypeStrings)
    => /\ ~sent.ok
       /\ sent.sends = 0
       /\ sent.data = <<>>

C12_Witness ==
    /\ Returned("HttpResponseSend")
    /\ sent.connfd # 0
    /\ sent.response.status_code \in DOMAIN ResponseCodeStrings
    /\ sent.response.content_type \in HttpContentType \ DOMAIN ContentTypeStrings
    /\ Len(sent.response.body) >= 1
    /\ ~sent.ok
    /\ sent.sends = 0

\* C13: HttpHeadersFind returns the header at the lowest index whose key is
\* byte-for-byte the given key, NULL when there is none, and leaves the list
\* as it was.
C13_FindFirstExact ==
    Returned("HttpHeadersFind")
    => LET hs == unit.headers
           eq == {i \in 1..Len(hs) : hs[i].key.text = unit.key}
       IN  /\ eq = {} => unit.found = NULL
           /\ eq # {} => (unit.found \in eq /\ \A j \in eq : unit.found <= j)
           /\ unit.headers_after = hs

C13_Witness ==
    /\ Returned("HttpHeadersFind")
    /\ Len(unit.headers) = 3
    /\ unit.key = HostKey
    /\ unit.headers[1].key.text = <<"h", "o", "s", "t">>
    /\ unit.headers[2].key.text = HostKey
    /\ unit.headers[3].key.text = HostKey
    /\ unit.found = 2

\* C14: HttpHeadersFreeAll releases each key and each value of the list once
\* and leaves the list empty; over every sequence of HttpRequestParse,
\* HttpHeadersFreeAll and HttpRequestReset on one request nothing is released
\* twice, and after HttpRequestReset nothing the preceding parse allocated is
\* still allocated.  No pointer of the request outlives its text, so a second
\* free of a text always shows as a free of an id that is not allocated.
C14_ReleasedOnce ==
    /\ [](released_twice = {})
    /\ [](pc = "reset" => parse_allocs \cap live = {})
    /\ []((({request.url.id} \cup HeaderIds(request.headers)) \ {NULL})
            \subseteq live)
    /\ [][pc' = "freed"
            => /\ request'.headers = <<>>
               /\ Cardinality(HeaderIds(request.headers)) = 2 * Len(request.headers)
               /\ HeaderIds(request.headers) \subseteq live
               /\ live' = live \ HeaderIds(request.headers)]_vars

\* the elements of the vector v, while its length lies within its block
Contents(v) == SubSeq(v.slots, 1, v.length)

\* the latest vector call was fn and returned the vector
VecReturned(fn) == vcall.fn = fn /\ vcall.ret = "vec"

\* how often x occurs in the sequence s
Count(s, x) == Cardinality({i \in 1..Len(s) : s[i] = x})

\* C15: after every vector call that returns, whether it reports success or
\* failure, length <= capacity, and data is NULL exactly when capacity is 0.
C15_LengthWithinCapacity ==
    (vcall.fn # "none" /\ vcall.ret \notin {"fault", "hang"})
        => /\ vec.length <= vec.capacity
           /\ (vec.data = NULL <=> vec.capacity = 0)

\* C16: a remove_range_vec(start, count) that succeeds with
\* start + count <= length reduces the length by count, and the elements
\* outside [start, start + count) keep their values and their order.
C16_RemoveRangeKeepsSurvivors ==
    (/\ VecReturned("remove_range_vec")
     /\ vcall.args[2] + vcall.args[3] <= vcall.before.length)
        => /\ vec.length = vcall.before.length - vcall.args[3]
           /\ Contents(vec) =
                SubSeq(Contents(vcall.before), 1, vcall.args[2])
                \o SubSeq(Contents(vcall.before), vcall.args[2] + vcall.args[3] + 1,
                          vcall.before.length)

\* C17: a push_arr_vec(arr, count, pos) that succeeds with pos <= length
\* leaves s[0..pos) ++ arr ++ s[pos..length), s being the elements before.
C17_PushArrSplices ==
    (VecReturned("push_arr_vec") /\ vcall.args[2] <= vcall.before.length)
        => Contents(vec) =
            SubSeq(Contents(vcall.before), 1, vcall.args[2])
            \o vcall.args[1]
            \o SubSeq(Contents(vcall.before), vcall.args[2] + 1, vcall.before.length)

\* C18: a resize_vec(n) that succeeds sets the length to n; when it shrinks
\* the first n elements keep their values, and when it grows the elements
\* of [old length, n) are zero.
C18_ResizeKeepsOrZeroes ==
    VecReturned("resize_vec")
        => /\ vec.length = vcall.args[1]
           /\ \A i \in 1..vcall.args[1] :
                IF i <= vcall.before.length
                THEN vec.slots[i] = vcall.before.slots[i]
                ELSE vec.slots[i] = 0

\* C19: after a fast_remove_range_vec(start, count) that succeeds with
\* start + count <= length, the elements are, as a multiset, the elements
\* before outside [start, start + count).
C19_FastRemoveKeepsMultiset ==
    (/\ VecReturned("fast_remove_range_vec")
     /\ vcall.args[2] + vcall.args[3] <= vcall.before.length)
        => /\ vec.length = vcall.before.length - vcall.args[3]
           /\ \A x \in 0..MaxVal :
                Count(Contents(vec), x) =
                    Count(SubSeq(Contents(vcall.before), 1, vcall.args[2]), x)
                    + Count(SubSeq(Contents(vcall.before),
                                   vcall.args[2] + vcall.args[3] + 1,
                                   vcall.before.length), x)

\* C20: remove_range_vec and fast_remove_range_vec called with start + count
\* beyond the length, also when the sum wraps, return NULL and leave the
\* length, the capacity and the contents as they were.
C20_OutOfRangeRejected ==
    (/\ vcall.fn \in {"remove_range_vec", "fast_remove_range_vec"}
     /\ vcall.args[2] + vcall.args[3] > vcall.before.length)
        => /\ vcall.ret = "NULL"
           /\ vec = vcall.before

\* C21: an insert_into_vec(item, idx) that succeeds had idx <= length and
\* leaves s[0..idx) ++ [item] ++ s[idx..length), the length one more than
\* before; called with idx > length it returns NULL.
C21_InsertSplices ==
    vcall.fn = "insert_into_vec"
        => /\ vcall.args[2] > vcall.before.length => vcall.ret = "NULL"
           /\ vcall.ret = "vec"
                => /\ vcall.args[2] <= vcall.before.length
                   /\ vec.length = vcall.before.length + 1
                   /\ Contents(vec) =
                        SubSeq(Contents(vcall.before), 1, vcall.args[2])
                        \o <<vcall.args[1]>>
                        \o SubSeq(Contents(vcall.before), vcall.args[2] + 1,
                                  vcall.before.length)

C21_Witness ==
    /\ VecReturned("insert_into_vec")
    /\ vcall.before.length >= 3
    /\ vcall.args[2] = 1
    /\ Contents(vcall.before)[2] # Contents(vcall.before)[3]
    /\ vcall.args[1] # Contents(vcall.before)[2]

\* C22: while every call on an initialised empty vector was a VecPushBack,
\* the length is the number N of those that succeeded and element i - 1 is
\* the i-th item pushed.
C22_PushBackOrder ==
    pushes.only
        => /\ vec.length = Len(pushes.items)
           /\ \A i \in 1..Len(pushes.items) : vec.slots[i] = pushes.items[i]

C22_Witness ==
    /\ pushes.only
    /\ pushes.items = <<1, 2, 3>>
    /\ VecReturned("insert_into_vec")

\* C23: expand_vec leaves the capacity alone when length + 1 <= capacity;
\* otherwise, when it succeeds, the capacity is 1 if it was 0 and twice what
\* it was if not, the slots there were keep their values and the added ones
\* are zero.  After N >= 1 back insertions into an initially empty vector
\* the capacity is the smallest power of two >= N.
C23_ExpandDoubles ==
    /\ vcall.fn = "expand_vec"
         => LET b == vcall.before
            IN  IF b.length + 1 <= b.capacity \/ vcall.ret = "NULL"
                THEN vec = b
                ELSE /\ vec.capacity = IF b.capacity = 0 THEN 1 ELSE 2 * b.capacity
                     /\ vec.length = b.length
                     /\ vec.data # NULL
                     /\ Len(vec.slots) = vec.capacity
                     /\ \A i \in 1..vec.capacity :
                          vec.slots[i] = IF i <= b.capacity THEN b.slots[i] ELSE 0
    /\ (pushes.only /\ Len(pushes.items) >= 1)
         => /\ vec.capacity >= Len(pushes.items)
            /\ vec.capacity < 2 * Len(pushes.items)
            /\ IsPow2(vec.capacity)

C23_Witness ==
    /\ VecReturned("expand_vec")
    /\ vcall.before.capacity = 2
    /\ vcall.before.length = 2
    /\ vcall.before.slots = <<1, 0>>
    /\ vec.capacity = 4

\* C24: VecClear on a vector with a release hook calls copy_deinit exactly
\* once on each of the length stored slots, in order, and on no other slot;
\* afterwards length is 0 and data, capacity, both hooks and the slots'
\* bytes are what they were.
C24_ClearReleasesEachOnce ==
    (vcall.fn = "clear_vec" /\ vcall.before.copy_deinit # NULL)
        => /\ vcall.ret = "vec"
           /\ vcall.released = [i \in 1..vcall.before.length |-> i - 1]
           /\ vec = [vcall.before EXCEPT !.length = 0]

C24_Witness ==
    /\ vcall.fn = "clear_vec"
    /\ vcall.before.copy_deinit = HOOK
    /\ vcall.before.length = 3
    /\ vcall.before.capacity = 4
    /\ vcall.released = <<0, 1, 2>>
    /\ vec.length = 0

\* C25: when HttpRequestMethodParse succeeds on a line whose first token T
\* ends at the first space, the returned position is len(T) + 1 bytes past
\* the start and remaining_size is len(T) + 1 less than it was, for the
\* recognised verbs and for every other token.
C25_MethodAdvancesPastToken ==
    (Returned("HttpRequestMethodParse") /\ ret # NULL)
    => LET T == SubSeq(mem, 1, memchr(mem, 1, SP, size_in) - 1)
       IN  /\ ret = 1 + Len(T) + 1
           /\ remaining_size = size_in - (Len(T) + 1)

\* C26: HttpRequestParse terminates: an iteration of the header loop that
\* leaves the loop running has consumed at least one byte of the buffer, so
\* the remaining length strictly decreases from one iteration to the next.
C26_HeaderLoopConsumes ==
    [][(pc = "loop" /\ pc' = "loop") => all_rem_size' < all_rem_size]_vars

\* C27: whenever the accept loop is back at accept, the connection it
\* accepted before is closed and the request holds no url and no header
\* text, whether HttpRequestParse succeeded or failed.
C27_ResetAndClosedBeforeAccept ==
    (server.stage = "accept" /\ pc = "idle")
        => /\ server.open = {}
           /\ Reachable(request) = {}

\* C28: every byte a parse phase reads lies inside the window it was given,
\* at an offset in [0, remaining_size) from the position passed in.
C28_ReadsInsideWindow ==
    /\ Returned("HttpRequestMethodParse")
         => HttpRequestMethodParseReads(mem, 1, size_in) \subseteq 1..size_in
    /\ Returned("HttpUrlParse")
         => HttpUrlParseReads(mem, 1, size_in) \subseteq 1..size_in
    /\ Returned("HttpVersionValidate")
         => HttpVersionValidateReads(mem, 1, size_in) \subseteq 1..size_in
    /\ Returned("HttpHeaderParse")
         => HttpHeaderParseReads(mem, 1, size_in) \subseteq 1..size_in

\* C29: insert_into_vec and insert_fast_into_vec called with idx > length
\* return NULL and leave the length, the capacity and the contents as they
\* were, also when the vector was full (length = capacity).
C29_RejectedInsertKeepsVector ==
    (/\ vcall.fn \in {"insert_into_vec", "insert_fast_into_vec"}
     /\ vcall.args[2] > vcall.before.length)
        => /\ vcall.ret = "NULL"
           /\ vec.length = vcall.before.length
           /\ vec.capacity = vcall.before.capacity
           /\ Contents(vec) = Contents(vcall.before)

\* C30: for every member of enum HttpContentType HttpContentTypeToString
\* returns a non-NULL string equal to the MIME type written beside the
\* member, so HttpResponseSend does not fail over the content type of a
\* response whose status code is known and whose descriptor is valid.
C30_EveryMemberHasMime ==
    (/\ Returned("HttpResponseSend")
     /\ sent.response.content_type \in HttpContentType)
    => /\ ~HttpContentTypeToString(sent.response.content_type).null
       /\ HttpContentTypeToString(sent.response.content_type).str
            = DeclaredMime[sent.response.content_type]
       /\ (/\ sent.connfd # 0
           /\ sent.response.status_code \in DOMAIN ResponseCodeStrings)
          => sent.ok

====
